---- MODULE Spec2Model ----
(***************************************************************************)
(* VaMBridgeServer: the TCP <-> WebSocket bridge of app.py and the frame   *)
(* codec of core.py.                                                       *)
(*                                                                         *)
(* Two scheduling domains are modelled.  Every native (TCP) connection has *)
(* a thread of its own (handle_tcp_client); a thread can be pre-empted     *)
(* between any two statements, so each statement that touches shared state *)
(* is one action.  All browser handlers (ws_handler) and all broadcast     *)
(* coroutines run on one asyncio loop: a coroutine runs from one await to  *)
(* the next without another coroutine running, but native threads keep     *)
(* running meanwhile.  The forward loop of ws_handler holds no await       *)
(* (send_frame is a blocking call), so it occupies the loop from its       *)
(* snapshot to its last send: loopRun names the handler that does.         *)
(*                                                                         *)
(* Spec is the bridge: a frame is one message there, and every message     *)
(* carries its sender and its number in the sender's stream (src, n), so   *)
(* that the streams tell where a message came from.  SpecFrame is the      *)
(* codec alone: one byte stream, written by send_frame and read by         *)
(* recv_frame in chunks of any size.                                       *)
(***************************************************************************)
EXTENDS Integers, Sequences, FiniteSets, TLC

\* ------------------------------------------------------------------ bounds
\* hello messages the peers, native and browser together, send to the bridge.
MaxHellos == 2
\* Other commands the peers, native and browser together, send to the bridge.
\* (A message that does not parse leaves the bridge nothing to remember and is
\* not counted.)
MaxCmds == 1

\* Frames written to one stream, and the bytes of a payload at most.
MaxFrames == 2
MaxPayloadLen == 2

\* ---------------------------------------------------------- wire constants
\* struct.pack("<I", ...): a header of four bytes, least significant first.
HeaderLen == 4
ByteBase == 256

\* ------------------------------------------------------------- connections
TcpConns == {"t1", "t2"}
WsConns == {"b1", "b2"}

\* A JSON key that is missing from the object, and Python's None.
Absent == "absent"
None == "None"

\* The (id, name) fields of a plugin's hello, of a browser's hello, and of a
\* browser's command (its target).
TcpHelloPairs == { <<"p1", "A">>, <<"p2", "A">> }
WsHelloPairs == { <<"w1", Absent>> }
NoCmdPairs == { <<"p1", "A">> }
TargetPairs == { <<"p1", "A">>, <<"p1", "B">>, <<Absent, Absent>> }

\* The connections of one run: two plugins and a browser, or a plugin and two
\* browsers.
Populations ==
  { [tcp |-> {"t1", "t2"}, ws |-> {"b1"}],
    [tcp |-> {"t1"}, ws |-> {"b1", "b2"}] }

\* dict.get(key, default) on a field that may be missing; a missing key
\* without a default reads as None.
Get(v, default) == IF v = Absent THEN default ELSE v

NoMsg == [cmd |-> "none", ack |-> "none", id |-> None, name |-> None,
          src |-> "none", n |-> 0]

VARIABLES
  tcp_clients,     \* app.py:33  set of live native connections
  tcp_identities,  \* app.py:34  conn -> [id, name]
  ws_clients,      \* app.py:35  set of live browser connections
  ws_identities,   \* app.py:36  ws -> [id, name]
  tIn,             \* frames read from each native connection so far
  wIn,             \* messages read from each browser connection so far
  pop,             \* the connections this run may see
  hellos,          \* hello messages read so far
  cmds,            \* other commands read so far
  tpc,             \* native thread of each connection: where it is
  tobj,            \* the envelope the native thread is handling
  peerOpen,        \* the native peer still holds its end of the socket
  tcpOut,          \* frames written to each native connection, in order
  regEpoch,        \* registry writes (register, remove) per native connection
  loopQueue,       \* broadcast coroutines handed to the loop, not yet started
  bcasts,          \* broadcast coroutines started and not finished
  loopRun,         \* the browser handler occupying the loop, or "none"
  wpc,             \* browser handler of each connection: where it is
  wobj,            \* the envelope the browser handler is forwarding
  wsOpen,          \* the browser connection is open
  wsOut,           \* messages sent to each browser connection, in order
  scanTodo,        \* forward loop: connections of the snapshot not visited
  scanCur,         \* forward loop: the connection being sent to
  scanSent,        \* forward loop: connections the frame was written to
  scanFailed,      \* forward loop: connections whose send raised
  scanStart,       \* forward loop: registry epochs when it took its snapshot
  fPayloads,       \* codec: the payloads send_frame was given, in order
  fStream,         \* codec: bytes of the stream not yet read
  fStage,          \* codec: recv_frame reads the "header" or the "payload"
  fNeed,           \* codec: recv_exact's n
  fBuf,            \* codec: recv_exact's buf
  fGot,            \* codec: the payloads recv_frame has returned, in order
  fState,          \* codec: "reading", or "error" once ConnectionError is raised
  fCut,            \* codec: bytes the stream carried before the peer closed it
  fSplit,          \* codec: some conn.recv returned fewer bytes than asked for
  sPayload,        \* socket: the payload each writer passes to send_frame
  sLeft,           \* socket: the bytes of its frame a writer has yet to write
  sWire,           \* socket: the bytes written to the connection, in order
  hpc,             \* helpers: which helper is being exercised, and how far
  hCmd,            \* helpers: the cmd passed to normalize_cmd
  hObj,            \* helpers: the parsed message (its data, morphs, controllers)
  hPayload,        \* helpers: the payload passed to normalize_cmd
  hOut,            \* helpers: what normalize_cmd returned, call after call
  hControllers,    \* helpers: the list passed to send_set_controller
  hNormalized,     \* helpers: what normalize_controllers returned
  hSent            \* helpers: the frames send_set_controller sent

vars == << tcp_clients, tcp_identities, ws_clients, ws_identities, tIn, wIn,
           pop, hellos, cmds,
           tpc, tobj, peerOpen, tcpOut, regEpoch, loopQueue, bcasts,
           loopRun, wpc, wobj, wsOpen, wsOut, scanTodo, scanCur, scanSent,
           scanFailed, scanStart, fPayloads, fStream, fStage, fNeed, fBuf,
           fGot, fState, fCut, fSplit, sPayload, sLeft, sWire, hpc, hCmd,
           hObj, hPayload, hOut, hControllers, hNormalized, hSent >>

sendVars == << sPayload, sLeft, sWire >>
helperVars == << hpc, hCmd, hObj, hPayload, hOut, hControllers, hNormalized,
                hSent >>
frameVars == << fPayloads, fStream, fStage, fNeed, fBuf, fGot, fState, fCut,
               fSplit >>
bridgeVars == << tcp_clients, tcp_identities, ws_clients, ws_identities, tIn,
                 wIn, pop, hellos, cmds, tpc, tobj, peerOpen, tcpOut,
                 regEpoch, loopQueue, bcasts, loopRun, wpc, wobj,
                 wsOpen, wsOut, scanTodo, scanCur, scanSent, scanFailed,
                 scanStart >>

\* The peers' messages so far.
inputs == << tIn, wIn, pop, hellos, cmds >>

\* What each side's actions leave alone.
wsSide == << ws_clients, ws_identities, wpc, wobj, wsOpen, wsOut, loopRun,
             scanTodo, scanCur, scanSent, scanFailed, scanStart >>
loopSide == << bcasts >>
tcpSide == << tcp_clients, tcp_identities, tpc, tobj, peerOpen, regEpoch >>

\* ------------------------------------------------------------------- init
\* The bridge after start(): no connection yet.
InitBridge ==
  /\ tcp_clients = {}
  /\ tcp_identities = << >>
  /\ ws_clients = {}
  /\ ws_identities = << >>
  /\ tIn = [c \in TcpConns |-> 0]
  /\ wIn = [b \in WsConns |-> 0]
  /\ hellos = 0
  /\ cmds = 0
  /\ tpc = [c \in TcpConns |-> "init"]
  /\ tobj = [c \in TcpConns |-> NoMsg]
  /\ peerOpen = [c \in TcpConns |-> TRUE]
  /\ tcpOut = [c \in TcpConns |-> << >>]
  /\ regEpoch = [c \in TcpConns |-> 0]
  /\ loopQueue = << >>
  /\ bcasts = {}
  /\ loopRun = "none"
  /\ wpc = [b \in WsConns |-> "init"]
  /\ wobj = [b \in WsConns |-> NoMsg]
  /\ wsOpen = [b \in WsConns |-> TRUE]
  /\ wsOut = [b \in WsConns |-> << >>]
  /\ scanTodo = [b \in WsConns |-> {}]
  /\ scanCur = [b \in WsConns |-> "none"]
  /\ scanSent = [b \in WsConns |-> {}]
  /\ scanFailed = [b \in WsConns |-> {}]
  /\ scanStart = [b \in WsConns |-> << >>]

\* The codec at rest: the bridge's runs treat a frame as one message.
InitFrameIdle ==
  /\ fPayloads = << >>
  /\ fStream = << >>
  /\ fStage = "header"
  /\ fNeed = HeaderLen
  /\ fBuf = << >>
  /\ fGot = << >>
  /\ fState = "idle"
  /\ fCut = 0
  /\ fSplit = FALSE

\* The two callers of send_frame for one native connection: the connection's
\* own thread (the hello acknowledgement) and the event loop (a forward).
Writers == {"thread", "loop"}

\* The socket at rest: the bridge's runs treat send_frame as one write.
InitSendIdle ==
  /\ sPayload = [w \in Writers |-> << >>]
  /\ sLeft = [w \in Writers |-> << >>]
  /\ sWire = << >>

\* The helpers of tcp_helpers.py at rest: app.py calls none of them.
InitHelpersIdle ==
  /\ hpc = "idle"
  /\ hCmd = [none |-> TRUE]
  /\ hObj = [none |-> TRUE]
  /\ hPayload = [none |-> TRUE]
  /\ hOut = << >>
  /\ hControllers = << >>
  /\ hNormalized = << >>
  /\ hSent = << >>

Init ==
  /\ InitBridge /\ pop \in Populations
  /\ InitFrameIdle /\ InitSendIdle /\ InitHelpersIdle

\* ------------------------------------------------------- dict/set helpers
\* d[k] = v on a Python dict.
DictSet(d, k, v) == [x \in (DOMAIN d) \cup {k} |-> IF x = k THEN v ELSE d[x]]
\* d.pop(k, None) on a Python dict.
DictPop(d, k) == [x \in (DOMAIN d) \ {k} |-> d[x]]
\* What d.get(k) gives for a missing key: None, in the place of a dict.
NoIdent == [none |-> TRUE]
\* d.get(k) on a Python dict.
DictGet(d, k) == IF k \in DOMAIN d THEN d[k] ELSE NoIdent

\* ------------------------------------------------------------ frame sends
\* conn.close() has run on the bridge's end of the socket.
sockClosed(c) == tpc[c] = "done"

\* A peer's closing is seen by the bridge only in what its reads and sends
\* return, so it is decided there: peerOpen and wsOpen turn false when the
\* bridge first sees the close.

\* What conn.sendall can do: it raises on a socket the bridge has closed, and
\* on a stream the peer has reset; otherwise it writes the bytes.
SendOutcomes(c) ==
  IF sockClosed(c) THEN {"err"} ELSE {"ok", "err"}

\* send_frame(conn, payload): one sendall of header + payload.
send_frame(out, c, msg) == [out EXCEPT ![c] = Append(@, msg)]

\* The acknowledgement built on hello.
AckOf(obj) ==
  [cmd |-> "acknowledge", ack |-> "hello", id |-> Get(obj.id, ""),
   name |-> Get(obj.name, ""), src |-> obj.src, n |-> obj.n]

\* asyncio.run_coroutine_threadsafe(broadcast(message), loop): the coroutine
\* is handed to the loop's thread-safe queue.  `at` remembers, for the
\* properties only, the browsers live when a handshake's acknowledgement was
\* handed over.
run_coroutine_threadsafe(queue, msg) ==
  Append(queue, [msg |-> msg,
                 at |-> IF msg.cmd = "acknowledge" THEN ws_clients ELSE {}])

\* ----------------------------------------------- native side: one thread
\* tcp_server accepts the connection and starts its thread, which adds the
\* connection to the live set.
T_Accept(c) ==
  /\ tpc[c] = "init"
  /\ c \in pop.tcp
  /\ c = "t2" => tpc["t1"] # "init"
  /\ tcp_clients' = tcp_clients \cup {c}
  /\ tpc' = [tpc EXCEPT ![c] = "recv"]
  /\ UNCHANGED << tcp_identities, tobj, peerOpen, regEpoch, inputs, tcpOut,
                  loopQueue, loopSide, wsSide >>
  /\ UNCHANGED << frameVars, sendVars, helperVars >>

\* The frames a native peer may send: a hello, another command, bytes that
\* are not JSON, an empty frame, JSON that is no object.
TcpInputs(c) ==
  { [cmd |-> "hello", ack |-> "none", id |-> p[1], name |-> p[2],
     src |-> c, n |-> tIn[c] + 1] : p \in TcpHelloPairs }
  \cup { [cmd |-> k, ack |-> "none", id |-> Absent, name |-> Absent,
          src |-> c, n |-> tIn[c] + 1] :
           k \in {"evt", "badjson", "empty", "nondict"} }

\* A thread's statements that touch nothing another thread or the loop can
\* see (the blocking recv_frame, json.loads, obj.get) are taken together with
\* the first statement after them that does.

\* A plausible slip: the first identity of a connection is kept
\* (tcp_identities.setdefault(conn, {...})).
T_RecvHello_KeepFirst(c) ==
  /\ tpc[c] = "recv"
  /\ peerOpen[c]
  /\ hellos' = hellos + 1
  /\ hellos < MaxHellos
  /\ \E m \in { x \in TcpInputs(c) : x.cmd = "hello" } :
       /\ tobj' = [tobj EXCEPT ![c] = m]
       /\ tcp_identities' =
            IF c \in DOMAIN tcp_identities THEN tcp_identities
            ELSE DictSet(tcp_identities, c,
                         [id |-> Get(m.id, ""), name |-> Get(m.name, "")])
  /\ regEpoch' = [regEpoch EXCEPT ![c] = @ + 1]
  /\ tpc' = [tpc EXCEPT ![c] = "hello_ack"]
  /\ tIn' = [tIn EXCEPT ![c] = @ + 1]
  /\ UNCHANGED << tcp_clients, peerOpen, tcpOut, loopQueue, loopSide, wsSide,
                  wIn, pop, cmds >>
  /\ UNCHANGED << frameVars, sendVars, helperVars >>

\* recv_frame returns a hello:
\* tcp_identities[conn] = {"id": client_id, "name": client_name}
T_RecvHello(c) ==
  /\ tpc[c] = "recv"
  /\ peerOpen[c]
  /\ hellos' = hellos + 1
  /\ hellos < MaxHellos
  /\ \E m \in { x \in TcpInputs(c) : x.cmd = "hello" } :
       /\ tobj' = [tobj EXCEPT ![c] = m]
       /\ tcp_identities' =
            DictSet(tcp_identities, c,
                    [id |-> Get(m.id, ""), name |-> Get(m.name, "")])
  /\ regEpoch' = [regEpoch EXCEPT ![c] = @ + 1]
  /\ tpc' = [tpc EXCEPT ![c] = "hello_ack"]
  /\ tIn' = [tIn EXCEPT ![c] = @ + 1]
  /\ UNCHANGED << tcp_clients, peerOpen, tcpOut, loopQueue, loopSide, wsSide,
                  wIn, pop, cmds >>
  /\ UNCHANGED << frameVars, sendVars, helperVars >>

\* A plausible slip: a command is broadcast only for a connection that has
\* registered an identity.
T_RecvCmd_RegisteredOnly(c) ==
  /\ tpc[c] = "recv"
  /\ peerOpen[c]
  /\ cmds' = cmds + 1
  /\ cmds < MaxCmds
  /\ \E m \in { x \in TcpInputs(c) : x.cmd = "evt" } :
       loopQueue' = IF c \in DOMAIN tcp_identities
                    THEN run_coroutine_threadsafe(loopQueue, m)
                    ELSE loopQueue
  /\ tIn' = [tIn EXCEPT ![c] = @ + 1]
  /\ UNCHANGED << tcp_clients, tcp_identities, tpc, tobj, peerOpen, regEpoch,
                  tcpOut, loopSide, wsSide, wIn, pop, hellos >>
  /\ UNCHANGED << frameVars, sendVars, helperVars >>

\* recv_frame returns any other command:
\* asyncio.run_coroutine_threadsafe(broadcast(obj), loop)
T_RecvCmd(c) ==
  /\ tpc[c] = "recv"
  /\ peerOpen[c]
  /\ cmds' = cmds + 1
  /\ cmds < MaxCmds
  /\ \E m \in { x \in TcpInputs(c) : x.cmd = "evt" } :
       loopQueue' = run_coroutine_threadsafe(loopQueue, m)
  /\ tIn' = [tIn EXCEPT ![c] = @ + 1]
  /\ UNCHANGED << tcp_clients, tcp_identities, tpc, tobj, peerOpen, regEpoch,
                  tcpOut, loopSide, wsSide, wIn, pop, hellos >>
  /\ UNCHANGED << frameVars, sendVars, helperVars >>

\* A plausible slip: the parse failure returns from outside the try/finally,
\* closing the socket and nothing else.
T_RecvBad_NoFinally(c) ==
  /\ tpc[c] = "recv"
  /\ peerOpen[c]
  /\ \E m \in { x \in TcpInputs(c) : x.cmd \in {"badjson", "empty", "nondict"} } :
       tobj' = [tobj EXCEPT ![c] = NoMsg]
  /\ tpc' = [tpc EXCEPT ![c] = "done"]
  /\ UNCHANGED << tcp_clients, tcp_identities, peerOpen, regEpoch, tcpOut,
                  loopQueue, loopSide, wsSide, inputs >>
  /\ UNCHANGED << frameVars, sendVars, helperVars >>

\* A plausible slip: the finally clause empties the live set
\* (tcp_clients.clear()) instead of discarding the one connection.
T_RecvBad_ClearsLive(c) ==
  /\ tpc[c] = "recv"
  /\ peerOpen[c]
  /\ \E m \in { x \in TcpInputs(c) : x.cmd \in {"badjson", "empty", "nondict"} } :
       tobj' = [tobj EXCEPT ![c] = NoMsg]
  /\ tcp_clients' = {}
  /\ tpc' = [tpc EXCEPT ![c] = "pop"]
  /\ UNCHANGED << tcp_identities, peerOpen, regEpoch, tcpOut, loopQueue,
                  loopSide, wsSide, inputs >>
  /\ UNCHANGED << frameVars, sendVars, helperVars >>

\* The read loop ends at the frame: bytes that are not JSON (except: break),
\* an empty frame (if not frame: break), JSON that is no object (obj.get
\* raises).  finally: tcp_clients.discard(conn)
T_RecvBad(c) ==
  /\ tpc[c] = "recv"
  /\ peerOpen[c]
  /\ \E m \in { x \in TcpInputs(c) : x.cmd \in {"badjson", "empty", "nondict"} } :
       tobj' = [tobj EXCEPT ![c] = NoMsg]
  /\ tcp_clients' = tcp_clients \ {c}
  /\ tpc' = [tpc EXCEPT ![c] = "pop"]
  /\ UNCHANGED << tcp_identities, peerOpen, regEpoch, tcpOut, loopQueue,
                  loopSide, wsSide, inputs >>
  /\ UNCHANGED << frameVars, sendVars, helperVars >>

\* recv_frame raises ConnectionError: the peer closed the stream.
\* finally: tcp_clients.discard(conn)
T_RecvClosed(c) ==
  /\ tpc[c] = "recv"
  /\ peerOpen' = [peerOpen EXCEPT ![c] = FALSE]
  /\ tcp_clients' = tcp_clients \ {c}
  /\ tpc' = [tpc EXCEPT ![c] = "pop"]
  /\ UNCHANGED << tcp_identities, tobj, regEpoch, inputs, tcpOut, loopQueue,
                  loopSide, wsSide >>
  /\ UNCHANGED << frameVars, sendVars, helperVars >>

\* A plausible slip: the failed write is swallowed (try/except around
\* send_frame) and the thread goes on to broadcast the acknowledgement.
T_HelloAck_BroadcastAnyway(c) ==
  /\ tpc[c] = "hello_ack"
  /\ \E r \in SendOutcomes(c) :
       IF r = "ok"
       THEN /\ tcpOut' = send_frame(tcpOut, c, AckOf(tobj[c]))
            /\ UNCHANGED peerOpen
       ELSE /\ peerOpen' = [peerOpen EXCEPT ![c] = FALSE]
            /\ UNCHANGED tcpOut
  /\ tpc' = [tpc EXCEPT ![c] = "hello_bcast"]
  /\ UNCHANGED << tobj, tcp_clients, tcp_identities, regEpoch, inputs,
                  loopQueue, loopSide, wsSide >>
  /\ UNCHANGED << frameVars, sendVars, helperVars >>

\* send_frame(conn, ack); an exception leaves the loop through finally.
T_HelloAck(c) ==
  /\ tpc[c] = "hello_ack"
  /\ \E r \in SendOutcomes(c) :
       IF r = "ok"
       THEN /\ tcpOut' = send_frame(tcpOut, c, AckOf(tobj[c]))
            /\ tpc' = [tpc EXCEPT ![c] = "hello_bcast"]
            /\ UNCHANGED << tobj, peerOpen >>
       ELSE /\ tpc' = [tpc EXCEPT ![c] = "discard"]
            /\ tobj' = [tobj EXCEPT ![c] = NoMsg]
            /\ peerOpen' = [peerOpen EXCEPT ![c] = FALSE]
            /\ UNCHANGED tcpOut
  /\ UNCHANGED << tcp_clients, tcp_identities, regEpoch, inputs, loopQueue,
                  loopSide, wsSide >>
  /\ UNCHANGED << frameVars, sendVars, helperVars >>

\* A plausible slip: the acknowledgement goes to the native peer only.
T_HelloBroadcast_Skip(c) ==
  /\ tpc[c] = "hello_bcast"
  /\ tpc' = [tpc EXCEPT ![c] = "recv"]
  /\ tobj' = [tobj EXCEPT ![c] = NoMsg]
  /\ UNCHANGED << tcp_clients, tcp_identities, peerOpen, regEpoch, inputs,
                  tcpOut, loopQueue, loopSide, wsSide >>
  /\ UNCHANGED << frameVars, sendVars, helperVars >>

\* A plausible slip: the thread runs the broadcast itself
\* (asyncio.run(broadcast(ack))) and writes to the browsers from the thread.
T_HelloBroadcast_Direct(c) ==
  /\ tpc[c] = "hello_bcast"
  /\ wsOut' = [b \in WsConns |->
                 IF b \in ws_clients THEN Append(wsOut[b], AckOf(tobj[c]))
                 ELSE wsOut[b]]
  /\ tpc' = [tpc EXCEPT ![c] = "recv"]
  /\ tobj' = [tobj EXCEPT ![c] = NoMsg]
  /\ UNCHANGED << tcp_clients, tcp_identities, peerOpen, regEpoch, inputs,
                  tcpOut, loopQueue, loopSide, ws_clients, ws_identities, wpc,
                  wobj, wsOpen, loopRun, scanTodo, scanCur, scanSent,
                  scanFailed, scanStart >>
  /\ UNCHANGED << frameVars, sendVars, helperVars >>

\* asyncio.run_coroutine_threadsafe(broadcast(ack), loop); continue
T_HelloBroadcast(c) ==
  /\ tpc[c] = "hello_bcast"
  /\ loopQueue' = run_coroutine_threadsafe(loopQueue, AckOf(tobj[c]))
  /\ tpc' = [tpc EXCEPT ![c] = "recv"]
  /\ tobj' = [tobj EXCEPT ![c] = NoMsg]
  /\ UNCHANGED << tcp_clients, tcp_identities, peerOpen, regEpoch, inputs,
                  tcpOut, loopSide, wsSide >>
  /\ UNCHANGED << frameVars, sendVars, helperVars >>

\* finally: tcp_clients.discard(conn)
T_Discard(c) ==
  /\ tpc[c] = "discard"
  /\ tcp_clients' = tcp_clients \ {c}
  /\ tpc' = [tpc EXCEPT ![c] = "pop"]
  /\ UNCHANGED << tcp_identities, tobj, peerOpen, regEpoch, inputs, tcpOut,
                  loopQueue, loopSide, wsSide >>
  /\ UNCHANGED << frameVars, sendVars, helperVars >>

\* finally: tcp_identities.pop(conn, None)
T_Pop(c) ==
  /\ tpc[c] = "pop"
  /\ tcp_identities' = DictPop(tcp_identities, c)
  /\ regEpoch' = [regEpoch EXCEPT ![c] =
                    IF c \in DOMAIN tcp_identities THEN @ + 1 ELSE @]
  /\ tpc' = [tpc EXCEPT ![c] = "close"]
  /\ UNCHANGED << tcp_clients, tobj, peerOpen, inputs, tcpOut, loopQueue,
                  loopSide, wsSide >>
  /\ UNCHANGED << frameVars, sendVars, helperVars >>

\* finally: conn.close()
T_Close(c) ==
  /\ tpc[c] = "close"
  /\ tpc' = [tpc EXCEPT ![c] = "done"]
  /\ UNCHANGED << tcp_clients, tcp_identities, tobj, peerOpen, regEpoch,
                  inputs, tcpOut, loopQueue, loopSide, wsSide >>
  /\ UNCHANGED << frameVars, sendVars, helperVars >>

\* ------------------------------------------ browser side: the asyncio loop
\* Every action below runs on the loop, one coroutine at a time.
LoopFree == loopRun = "none"

\* ---------------------------------------------- tcp_helpers.py: JSON values
\* The values of a parsed JSON message as the helpers see them: a key that
\* is not in the dict, None, a string (the sequence of its pieces), an
\* integer, a float, a list.
Missing == [missing |-> TRUE]
PyNone == [none |-> TRUE]
PyStr(s) == [str |-> s]
PyInt(n) == [int |-> n]
PyFloat(n) == [float |-> n]
PyList(l) == [list |-> l]
isStr(v) == DOMAIN v = {"str"}

\* Python's truth test: `if v`, `not v`, `v or default`.
Truthy(v) == v \notin {PyNone, PyStr(<< >>), PyInt(0), PyFloat(0), PyList(<< >>)}

\* str(v) of a string or a non-negative integer.
DigitChars == << "0", "1", "2", "3", "4", "5", "6", "7", "8", "9" >>
RECURSIVE Digits(_)
Digits(n) ==
  IF n < 10 THEN << DigitChars[n + 1] >>
  ELSE Append(Digits(n \div 10), DigitChars[(n % 10) + 1])
str(v) == IF isStr(v) THEN v ELSE PyStr(Digits(v.int))

\* s.strip() on the pieces of a string.
RECURSIVE lstrip(_)
lstrip(s) ==
  IF s # << >> /\ Head(s) = " " THEN lstrip(Tail(s)) ELSE s
RECURSIVE rstrip(_)
rstrip(s) ==
  IF s # << >> /\ s[Len(s)] = " " THEN rstrip(SubSeq(s, 1, Len(s) - 1)) ELSE s
strip(v) == PyStr(rstrip(lstrip(v.str)))

\* A rotation dict with no key: `ctrl.get("rotation") or {}`.
EmptyRotation == [x |-> Missing, w |-> Missing]

\* tcp_helpers.py normalize_controllers, on entries [id, rotation, position]:
\* cid = ctrl.get("id"); `if not cid or (isinstance(cid, str) and
\* cid.strip() == ""): continue`; ctrl["id"] = str(cid);
\* rot = dict(ctrl.get("rotation") or {}); w = 1.0 when "w" is not in rot or
\* is None.  Nothing in app.py calls it.
RECURSIVE normalize_controllers(_)
normalize_controllers(controllers) ==
  IF controllers = << >> THEN << >>
  ELSE LET c == Head(controllers)
           cid == IF c.id = Missing THEN PyNone ELSE c.id
           rot == IF c.rotation \in {Missing, PyNone} THEN EmptyRotation
                  ELSE c.rotation
           rest == normalize_controllers(Tail(controllers))
       IN  IF ~Truthy(cid) \/ (isStr(cid) /\ strip(cid) = PyStr(<< >>))
           THEN rest
           ELSE << [c EXCEPT
                      !.id = str(cid),
                      !.rotation =
                        [rot EXCEPT !.w = IF rot.w \in {Missing, PyNone}
                                          THEN PyFloat(1) ELSE rot.w]] >>
                \o rest

\* The controllers a browser puts in a set_controller message, as it sends
\* them: one entry has an empty id, one has no rotation.w.
RawControllers ==
  << [id |-> PyStr(<< >>), rotation |-> [x |-> PyInt(0), w |-> PyInt(1)],
      position |-> PyInt(3)],
     [id |-> PyStr(<< "c1" >>), rotation |-> [x |-> PyInt(0), w |-> Missing],
      position |-> PyInt(3)] >>

\* The messages a browser may send: a hello, a set_controller addressed to
\* (id, name), a JSON object without cmd, text that is not JSON, JSON that
\* is no object.
WsInputs(b) ==
  { [cmd |-> "hello", ack |-> "none", id |-> p[1], name |-> p[2],
     src |-> b, n |-> wIn[b] + 1] : p \in WsHelloPairs }
  \cup { [cmd |-> "set_controller", ack |-> "none", id |-> p[1],
          name |-> p[2], src |-> b, n |-> wIn[b] + 1,
          controllers |-> RawControllers] : p \in TargetPairs }
  \cup { [cmd |-> Absent, ack |-> "none", id |-> p[1], name |-> p[2],
          src |-> b, n |-> wIn[b] + 1, controllers |-> << >>] :
           p \in NoCmdPairs }
  \cup { [cmd |-> k, ack |-> "none", id |-> Absent, name |-> Absent,
          src |-> b, n |-> wIn[b] + 1] : k \in {"badjson", "nondict"} }

\* A plausible slip: the name is left out of the comparison.
Matches_IdOnly(ident, target_id, target_name) ==
  /\ ident # NoIdent
  /\ ident.id = target_id

\* A plausible slip: tcp_identities.get(conn, {}) without the truth test, so
\* that a connection with no identity has id None and name None.
Matches_NoTruthTest(ident, target_id, target_name) ==
  LET i == IF ident = NoIdent THEN [id |-> None, name |-> None] ELSE ident
  IN i.id = target_id /\ i.name = target_name

\* ident and ident.get("id") == target_id and ident.get("name") == target_name
Matches(ident, target_id, target_name) ==
  /\ ident # NoIdent
  /\ ident.id = target_id
  /\ ident.name = target_name

\* finally: ws_clients.discard(ws); ws_identities.pop(ws, None).  The
\* handler returns and the server closes the connection.
WsCleanup(b) ==
  /\ ws_clients' = ws_clients \ {b}
  /\ ws_identities' = DictPop(ws_identities, b)
  /\ wpc' = [wpc EXCEPT ![b] = "done"]
  /\ wsOpen' = [wsOpen EXCEPT ![b] = FALSE]

\* ws_handler starts: ws_clients.add(ws)
W_Connect(b) ==
  /\ LoopFree
  /\ wpc[b] = "init"
  /\ b \in pop.ws
  /\ b = "b2" => wpc["b1"] # "init"
  /\ ws_clients' = ws_clients \cup {b}
  /\ wpc' = [wpc EXCEPT ![b] = "recv"]
  /\ UNCHANGED << ws_identities, wobj, wsOpen, wsOut, loopRun, scanTodo,
                  scanCur, scanSent, scanFailed, scanStart, inputs, tcpSide,
                  tcpOut, loopQueue, loopSide >>
  /\ UNCHANGED << frameVars, sendVars, helperVars >>

\* A message that json.loads refuses: logged, continue.
W_RecvBad(b) ==
  /\ LoopFree
  /\ wpc[b] = "recv"
  /\ \E m \in { x \in WsInputs(b) : x.cmd = "badjson" } :
       wobj' = [wobj EXCEPT ![b] = NoMsg]
  /\ UNCHANGED << ws_clients, ws_identities, wpc, wsOpen, wsOut, loopRun,
                  scanTodo, scanCur, scanSent, scanFailed, scanStart, inputs,
                  tcpSide, tcpOut, loopQueue, loopSide >>
  /\ UNCHANGED << frameVars, sendVars, helperVars >>

\* JSON that is no object: obj.get raises, nothing catches it, finally runs.
W_RecvNonDict(b) ==
  /\ LoopFree
  /\ wpc[b] = "recv"
  /\ \E m \in { x \in WsInputs(b) : x.cmd = "nondict" } :
       wobj' = [wobj EXCEPT ![b] = NoMsg]
  /\ WsCleanup(b)
  /\ UNCHANGED << inputs, wsOut, loopRun, scanTodo, scanCur, scanSent,
                  scanFailed, scanStart, tcpSide, tcpOut, loopQueue,
                  loopSide >>
  /\ UNCHANGED << frameVars, sendVars, helperVars >>

\* What `await ws.send(data)` can do: it raises ConnectionClosed on a closed
\* connection; otherwise it writes the message.
WsSendOutcomes(b) ==
  IF wsOpen[b] /\ wpc[b] # "done" THEN {"ok", "closed"} ELSE {"closed"}

\* A plausible slip: the browser's acknowledgement is sent to every browser in
\* the live set, as the native side's is.
W_Hello_Broadcast(b) ==
  /\ LoopFree
  /\ wpc[b] = "recv"
  /\ hellos' = hellos + 1
  /\ hellos < MaxHellos
  /\ wIn' = [wIn EXCEPT ![b] = @ + 1]
  /\ UNCHANGED << tIn, pop, cmds >>
  /\ \E m \in { x \in WsInputs(b) : x.cmd = "hello" } :
       /\ ws_identities' =
            DictSet(ws_identities, b,
                    [id |-> Get(m.id, ""), name |-> Get(m.name, "")])
       /\ wsOut' = [x \in WsConns |->
                      IF x \in ws_clients THEN Append(wsOut[x], AckOf(m))
                      ELSE wsOut[x]]
  /\ UNCHANGED << ws_clients, wpc, wsOpen, wobj, loopRun, scanTodo, scanCur,
                  scanSent, scanFailed, scanStart, tcpSide, tcpOut, loopQueue,
                  loopSide >>
  /\ UNCHANGED << frameVars, sendVars, helperVars >>

\* hello: register the identity, send the acknowledgement to this connection.
\* A connection that closed after the hello was queued makes ws.send raise,
\* nothing catches it, finally runs.
W_Hello(b) ==
  /\ LoopFree
  /\ wpc[b] = "recv"
  /\ hellos' = hellos + 1
  /\ hellos < MaxHellos
  /\ wIn' = [wIn EXCEPT ![b] = @ + 1]
  /\ UNCHANGED << tIn, pop, cmds >>
  /\ \E m \in { x \in WsInputs(b) : x.cmd = "hello" } :
     \E r \in WsSendOutcomes(b) :
       IF r = "ok"
       THEN /\ ws_identities' =
                 DictSet(ws_identities, b,
                         [id |-> Get(m.id, ""), name |-> Get(m.name, "")])
            /\ wsOut' = [wsOut EXCEPT ![b] = Append(@, AckOf(m))]
            /\ UNCHANGED << ws_clients, wpc, wsOpen >>
       ELSE /\ WsCleanup(b)
            /\ UNCHANGED wsOut
  /\ UNCHANGED << wobj, loopRun, scanTodo, scanCur, scanSent, scanFailed,
                  scanStart, tcpSide, tcpOut, loopQueue, loopSide >>
  /\ UNCHANGED << frameVars, sendVars, helperVars >>

\* Any other message, one without cmd included (cmd is None, which is not
\* "hello"): target_id, target_name, wire; list(tcp_clients).
W_Forward(b) ==
  /\ LoopFree
  /\ wpc[b] = "recv"
  /\ cmds' = cmds + 1
  /\ cmds < MaxCmds
  /\ wIn' = [wIn EXCEPT ![b] = @ + 1]
  /\ UNCHANGED << tIn, pop, hellos >>
  /\ \E m \in { x \in WsInputs(b) : x.cmd \in {"set_controller", Absent} } :
       wobj' = [wobj EXCEPT ![b] =
                  [m EXCEPT !.id = Get(m.id, None), !.name = Get(m.name, None)]]
  /\ wpc' = [wpc EXCEPT ![b] = "scan"]
  /\ loopRun' = b
  /\ scanTodo' = [scanTodo EXCEPT ![b] = tcp_clients]
  /\ scanStart' = [scanStart EXCEPT ![b] = [c \in tcp_clients |-> regEpoch[c]]]
  /\ UNCHANGED << ws_clients, ws_identities, wsOpen, wsOut, scanCur, scanSent,
                  scanFailed, tcpSide, tcpOut, loopQueue, loopSide >>
  /\ UNCHANGED << frameVars, sendVars, helperVars >>

\* for conn in list(tcp_clients): ident = tcp_identities.get(conn); if ...
W_ScanCheck(b) ==
  /\ wpc[b] = "scan"
  /\ scanCur[b] = "none"
  /\ \E c \in scanTodo[b] :
       /\ scanTodo' = [scanTodo EXCEPT ![b] = @ \ {c}]
       /\ scanCur' = [scanCur EXCEPT ![b] =
            IF Matches(DictGet(tcp_identities, c), wobj[b].id, wobj[b].name)
            THEN c ELSE "none"]
  /\ UNCHANGED << ws_clients, ws_identities, wpc, wobj, wsOpen, wsOut,
                  loopRun, scanSent, scanFailed, scanStart, inputs, tcpSide,
                  tcpOut, loopQueue, loopSide >>
  /\ UNCHANGED << frameVars, sendVars, helperVars >>

\* A plausible slip: no try around send_frame in the for loop, so a failed
\* send leaves the loop and the handler through its finally clause.
W_ScanSend_Abort(b) ==
  /\ wpc[b] = "scan"
  /\ scanCur[b] # "none"
  /\ \E r \in SendOutcomes(scanCur[b]) :
       IF r = "ok"
       THEN /\ tcpOut' = send_frame(tcpOut, scanCur[b], wobj[b])
            /\ scanSent' = [scanSent EXCEPT ![b] = @ \cup {scanCur[b]}]
            /\ UNCHANGED << scanFailed, peerOpen, ws_clients, ws_identities,
                            wpc, wsOpen, loopRun >>
       ELSE /\ scanFailed' = [scanFailed EXCEPT ![b] = @ \cup {scanCur[b]}]
            /\ peerOpen' = [peerOpen EXCEPT ![scanCur[b]] = FALSE]
            /\ WsCleanup(b)
            /\ loopRun' = "none"
            /\ UNCHANGED << tcpOut, scanSent >>
  /\ scanCur' = [scanCur EXCEPT ![b] = "none"]
  /\ UNCHANGED << wobj, wsOut, scanTodo, scanStart, inputs, tcp_clients,
                  tcp_identities, tpc, tobj, regEpoch, loopQueue, loopSide >>
  /\ UNCHANGED << frameVars, sendVars, helperVars >>

\* A plausible slip: the except clause of the forward also unregisters the
\* connection the send failed for (tcp_identities.pop(conn, None)).
W_ScanSend_Unregister(b) ==
  /\ wpc[b] = "scan"
  /\ scanCur[b] # "none"
  /\ \E r \in SendOutcomes(scanCur[b]) :
       IF r = "ok"
       THEN /\ tcpOut' = send_frame(tcpOut, scanCur[b], wobj[b])
            /\ scanSent' = [scanSent EXCEPT ![b] = @ \cup {scanCur[b]}]
            /\ UNCHANGED << scanFailed, peerOpen, tcp_identities >>
       ELSE /\ scanFailed' = [scanFailed EXCEPT ![b] = @ \cup {scanCur[b]}]
            /\ peerOpen' = [peerOpen EXCEPT ![scanCur[b]] = FALSE]
            /\ tcp_identities' = DictPop(tcp_identities, scanCur[b])
            /\ UNCHANGED << tcpOut, scanSent >>
  /\ scanCur' = [scanCur EXCEPT ![b] = "none"]
  /\ UNCHANGED << ws_clients, ws_identities, wpc, wobj, wsOpen, wsOut,
                  loopRun, scanTodo, scanStart, inputs, tcp_clients,
                  tpc, tobj, regEpoch, loopQueue, loopSide >>
  /\ UNCHANGED << frameVars, sendVars, helperVars >>

\* try: send_frame(conn, wire)  except Exception: print
W_ScanSend(b) ==
  /\ wpc[b] = "scan"
  /\ scanCur[b] # "none"
  /\ \E r \in SendOutcomes(scanCur[b]) :
       IF r = "ok"
       THEN /\ tcpOut' = send_frame(tcpOut, scanCur[b], wobj[b])
            /\ scanSent' = [scanSent EXCEPT ![b] = @ \cup {scanCur[b]}]
            /\ UNCHANGED << scanFailed, peerOpen >>
       ELSE /\ scanFailed' = [scanFailed EXCEPT ![b] = @ \cup {scanCur[b]}]
            /\ peerOpen' = [peerOpen EXCEPT ![scanCur[b]] = FALSE]
            /\ UNCHANGED << tcpOut, scanSent >>
  /\ scanCur' = [scanCur EXCEPT ![b] = "none"]
  /\ UNCHANGED << ws_clients, ws_identities, wpc, wobj, wsOpen, wsOut,
                  loopRun, scanTodo, scanStart, inputs, tcp_clients,
                  tcp_identities, tpc, tobj, regEpoch, loopQueue, loopSide >>
  /\ UNCHANGED << frameVars, sendVars, helperVars >>

\* A plausible slip: a loop that sent to nobody answers the browser with a
\* negative acknowledgement.
W_ScanEnd_Nack(b) ==
  /\ wpc[b] = "scan"
  /\ scanCur[b] = "none"
  /\ scanTodo[b] = {}
  /\ wpc' = [wpc EXCEPT ![b] = "recv"]
  /\ wobj' = [wobj EXCEPT ![b] = NoMsg]
  /\ loopRun' = "none"
  /\ scanSent' = [scanSent EXCEPT ![b] = {}]
  /\ scanFailed' = [scanFailed EXCEPT ![b] = {}]
  /\ scanStart' = [scanStart EXCEPT ![b] = << >>]
  /\ wsOut' = IF scanSent[b] = {}
              THEN [wsOut EXCEPT ![b] = Append(@, [wobj[b] EXCEPT !.cmd = "nack"])]
              ELSE wsOut
  /\ UNCHANGED << ws_clients, ws_identities, wsOpen, scanTodo, scanCur,
                  inputs, tcpSide, tcpOut, loopQueue, loopSide >>
  /\ UNCHANGED << frameVars, sendVars, helperVars >>

\* The for loop is over: back to `async for msg in ws`.
W_ScanEnd(b) ==
  /\ wpc[b] = "scan"
  /\ scanCur[b] = "none"
  /\ scanTodo[b] = {}
  /\ wpc' = [wpc EXCEPT ![b] = "recv"]
  /\ wobj' = [wobj EXCEPT ![b] = NoMsg]
  /\ loopRun' = "none"
  /\ scanSent' = [scanSent EXCEPT ![b] = {}]
  /\ scanFailed' = [scanFailed EXCEPT ![b] = {}]
  /\ scanStart' = [scanStart EXCEPT ![b] = << >>]
  /\ UNCHANGED << ws_clients, ws_identities, wsOpen, wsOut, scanTodo, scanCur,
                  inputs, tcpSide, tcpOut, loopQueue, loopSide >>
  /\ UNCHANGED << frameVars, sendVars, helperVars >>

\* `async for` ends on a closed connection: finally runs.
W_End(b) ==
  /\ LoopFree
  /\ wpc[b] = "recv"
  /\ WsCleanup(b)
  /\ UNCHANGED << wobj, wsOut, loopRun, scanTodo, scanCur, scanSent,
                  scanFailed, scanStart, inputs, tcpSide, tcpOut, loopQueue,
                  loopSide >>
  /\ UNCHANGED << frameVars, sendVars, helperVars >>

\* ----------------------------------------------------- broadcast(message)
\* A plausible slip: the try is around the for loop, not inside it, so the
\* first failed send ends the broadcast.
\* One `await ws.send(data)` of a broadcast with outcome r, and its except
\* clause (ws_clients.discard(ws)): the task after it, the browsers' streams,
\* the live set, the connections known closed.
BroadcastSendTo_Abort(t, b, r) ==
  IF r = "ok"
  THEN [task |-> [t EXCEPT !.todo = @ \ {b}, !.sent = @ \cup {b}],
        out |-> [wsOut EXCEPT ![b] = Append(@, t.msg)],
        clients |-> ws_clients,
        open |-> wsOpen]
  ELSE [task |-> [t EXCEPT !.todo = {}, !.failed = @ \cup {b}],
        out |-> wsOut,
        clients |-> ws_clients \ {b},
        open |-> [wsOpen EXCEPT ![b] = FALSE]]

BroadcastSendTo(t, b, r) ==
  IF r = "ok"
  THEN [task |-> [t EXCEPT !.todo = @ \ {b}, !.sent = @ \cup {b}],
        out |-> [wsOut EXCEPT ![b] = Append(@, t.msg)],
        clients |-> ws_clients,
        open |-> wsOpen]
  ELSE [task |-> [t EXCEPT !.todo = @ \ {b}, !.failed = @ \cup {b}],
        out |-> wsOut,
        clients |-> ws_clients \ {b},
        open |-> [wsOpen EXCEPT ![b] = FALSE]]

\* A task that has sent to its whole snapshot is over.
Retire(tasks, old, new) ==
  IF new.todo = {} THEN tasks \ {old} ELSE (tasks \ {old}) \cup {new}

\* A plausible slip: the broadcast goes through the registered browsers
\* (list(ws_identities)) in the place of the live ones.
Snapshot_Registered(clients) == DOMAIN ws_identities

\* list(ws_clients)
Snapshot(clients) == clients

\* The coroutine starts: data = json.dumps(message); list(ws_clients); the
\* first send is made before the coroutine can be suspended.
L_BroadcastStart ==
  /\ LoopFree
  /\ loopQueue # << >>
  /\ loopQueue' = Tail(loopQueue)
  /\ LET t0 == [msg |-> Head(loopQueue).msg, at |-> Head(loopQueue).at,
                snap |-> ws_clients, todo |-> Snapshot(ws_clients),
                sent |-> {}, failed |-> {}]
     IN IF t0.todo = {}
        THEN UNCHANGED << bcasts, wsOut, ws_clients, wsOpen >>
        ELSE \E b \in t0.todo : \E r \in WsSendOutcomes(b) :
               LET s == BroadcastSendTo(t0, b, r)
               IN /\ bcasts' = Retire(bcasts, t0, s.task)
                  /\ wsOut' = s.out
                  /\ ws_clients' = s.clients
                  /\ wsOpen' = s.open
  /\ UNCHANGED << ws_identities, wpc, wobj, loopRun, scanTodo, scanCur,
                  scanSent, scanFailed, scanStart, inputs, tcpSide, tcpOut >>
  /\ UNCHANGED << frameVars, sendVars, helperVars >>

\* The coroutine resumes from an await and makes its next send.
L_BroadcastSend ==
  /\ LoopFree
  /\ \E t \in bcasts : \E b \in t.todo : \E r \in WsSendOutcomes(b) :
       LET s == BroadcastSendTo(t, b, r)
       IN /\ bcasts' = Retire(bcasts, t, s.task)
          /\ wsOut' = s.out
          /\ ws_clients' = s.clients
          /\ wsOpen' = s.open
  /\ UNCHANGED << ws_identities, wpc, wobj, loopRun, scanTodo, scanCur,
                  scanSent, scanFailed, scanStart, inputs, tcpSide, tcpOut,
                  loopQueue >>
  /\ UNCHANGED << frameVars, sendVars, helperVars >>

\* ------------------------------------------------------------ the program
Next ==
  \/ \E c \in TcpConns :
       \/ T_Accept(c)
       \/ T_RecvHello(c)
       \/ T_RecvCmd(c)
       \/ T_RecvBad(c)
       \/ T_RecvClosed(c)
       \/ T_HelloAck(c)
       \/ T_HelloBroadcast(c)
       \/ T_Discard(c)
       \/ T_Pop(c)
       \/ T_Close(c)
  \/ \E b \in WsConns :
       \/ W_Connect(b)
       \/ W_RecvBad(b)
       \/ W_RecvNonDict(b)
       \/ W_Hello(b)
       \/ W_Forward(b)
       \/ W_ScanCheck(b)
       \/ W_ScanSend(b)
       \/ W_ScanEnd(b)
       \/ W_End(b)
  \/ L_BroadcastStart
  \/ L_BroadcastSend

Spec == Init /\ [][Next]_vars

\* ---------------------------------------------------------- the frame codec
\* core.py: a frame is a 4-byte little-endian length and then the payload.
\* One stream is modelled: the writer's frames back to back, cut where the
\* peer closed it, and a reader that calls recv_frame until it raises.
Bytes == {0, 1}

Min(a, b) == IF a < b THEN a ELSE b

RECURSIVE Pow(_, _)
Pow(b, e) == IF e = 0 THEN 1 ELSE b * Pow(b, e - 1)

\* struct.pack("<I", length)
struct_pack(length) ==
  [i \in 1..HeaderLen |-> (length \div Pow(ByteBase, i - 1)) % ByteBase]

\* struct.unpack("<I", header)[0]
RECURSIVE struct_unpack(_)
struct_unpack(header) ==
  IF header = << >> THEN 0
  ELSE Head(header) + ByteBase * struct_unpack(Tail(header))

\* send_frame: conn.sendall(header + payload_json)
FrameBytes(payload) == struct_pack(Len(payload)) \o payload

\* The stream after send_frame was called for each payload in turn.
RECURSIVE StreamOf(_)
StreamOf(payloads) ==
  IF payloads = << >> THEN << >>
  ELSE FrameBytes(Head(payloads)) \o StreamOf(Tail(payloads))

PayloadsOfLen(n) == [1..n -> Bytes]
Payloads == UNION { PayloadsOfLen(n) : n \in 0..MaxPayloadLen }
PayloadSeqs == UNION { [1..k -> Payloads] : k \in 1..MaxFrames }

\* The writer has sent its frames; the peer closed the stream after fCut
\* bytes; the reader enters recv_frame: recv_exact(conn, 4).
InitFrame ==
  /\ InitBridge
  /\ pop = [tcp |-> {}, ws |-> {}]
  /\ fPayloads \in PayloadSeqs
  /\ fCut \in 0..Len(StreamOf(fPayloads))
  /\ fStream = SubSeq(StreamOf(fPayloads), 1, fCut)
  /\ fStage = "header"
  /\ fNeed = HeaderLen
  /\ fBuf = << >>
  /\ fGot = << >>
  /\ fState = "reading"
  /\ fSplit = FALSE
  /\ InitSendIdle
  /\ InitHelpersIdle

\* A plausible slip: recv_exact asks for n bytes on every turn of its loop,
\* conn.recv(n), and so can take bytes of the next frame.
RecvRequest_Whole(n, buf) == n

\* recv_exact: conn.recv(n - len(buf)) asks for the bytes still missing.
RecvRequest(n, buf) == n - Len(buf)

\* recv_exact, one turn of the loop: conn.recv returns between one byte and
\* the bytes asked for, as many as have arrived; buf.extend(chunk)
F_RecvChunk ==
  /\ fState = "reading"
  /\ Len(fBuf) < fNeed
  /\ fStream # << >>
  /\ \E k \in 1..Min(RecvRequest(fNeed, fBuf), Len(fStream)) :
       /\ fBuf' = fBuf \o SubSeq(fStream, 1, k)
       /\ fStream' = SubSeq(fStream, k + 1, Len(fStream))
       /\ fSplit' = (fSplit \/ k < RecvRequest(fNeed, fBuf))
  /\ UNCHANGED << fPayloads, fStage, fNeed, fGot, fState, fCut >>
  /\ UNCHANGED << bridgeVars, sendVars, helperVars >>

\* A plausible slip: recv_exact leaves its loop on an empty chunk
\* (if not chunk: break) and returns what it has.
F_RecvEof_Break ==
  /\ fState = "reading"
  /\ Len(fBuf) < fNeed
  /\ fStream = << >>
  /\ IF fStage = "payload"
     THEN /\ fGot' = Append(fGot, fBuf)
          /\ fStage' = "header"
          /\ fNeed' = HeaderLen
          /\ fBuf' = << >>
          /\ UNCHANGED fState
     ELSE /\ fState' = "struct_error"
          /\ UNCHANGED << fGot, fStage, fNeed, fBuf >>
  /\ UNCHANGED << fPayloads, fStream, fCut, fSplit >>
  /\ UNCHANGED << bridgeVars, sendVars, helperVars >>

\* recv_exact: the stream is closed and drained, conn.recv returns b"":
\* if not chunk: raise ConnectionError("Socket closed")
F_RecvEof ==
  /\ fState = "reading"
  /\ Len(fBuf) < fNeed
  /\ fStream = << >>
  /\ fState' = "error"
  /\ UNCHANGED << fPayloads, fStream, fStage, fNeed, fBuf, fGot, fCut, fSplit >>
  /\ UNCHANGED << bridgeVars, sendVars, helperVars >>

\* recv_frame: header = recv_exact(conn, 4) has returned;
\* length = struct.unpack("<I", header)[0]; recv_exact(conn, length) begins.
\* struct.unpack raises struct.error for a header that is not 4 bytes long.
F_HeaderDone ==
  /\ fState = "reading"
  /\ fStage = "header"
  /\ Len(fBuf) >= fNeed
  /\ IF Len(fBuf) = HeaderLen
     THEN /\ fStage' = "payload"
          /\ fNeed' = struct_unpack(fBuf)
          /\ fBuf' = << >>
          /\ UNCHANGED fState
     ELSE /\ fState' = "struct_error"
          /\ UNCHANGED << fStage, fNeed, fBuf >>
  /\ UNCHANGED << fPayloads, fStream, fGot, fCut, fSplit >>
  /\ UNCHANGED << bridgeVars, sendVars, helperVars >>

\* recv_frame returns recv_exact(conn, length): return bytes(buf).  The
\* reader takes the payload and calls recv_frame again.
F_PayloadDone ==
  /\ fState = "reading"
  /\ fStage = "payload"
  /\ Len(fBuf) >= fNeed
  /\ fGot' = Append(fGot, fBuf)
  /\ fStage' = "header"
  /\ fNeed' = HeaderLen
  /\ fBuf' = << >>
  /\ UNCHANGED << fPayloads, fStream, fState, fCut, fSplit >>
  /\ UNCHANGED << bridgeVars, sendVars, helperVars >>

NextFrame ==
  \/ F_RecvChunk
  \/ F_RecvEof
  \/ F_HeaderDone
  \/ F_PayloadDone

SpecFrame == InitFrame /\ [][NextFrame]_vars

\* ------------------------------------------------------------------ socket
\* core.py send_frame: conn.sendall(header + payload_json), called for one
\* native connection by its own thread (app.py, the acknowledgement) and by
\* the event loop (app.py, the forward) with no lock around the call.
\* sendall writes its buffer with as many send calls as the socket takes; a
\* send call puts some leading part of what is left on the stream, and the
\* other writer's send calls may come between two of them.
InitSend ==
  /\ InitBridge
  /\ pop = [tcp |-> {}, ws |-> {}]
  /\ InitFrameIdle
  /\ sPayload \in [Writers -> Payloads]
  /\ sLeft = [w \in Writers |-> FrameBytes(sPayload[w])]
  /\ sWire = << >>
  /\ InitHelpersIdle

\* One send call of writer w's sendall: k of the remaining bytes are written.
S_Sendall(w) ==
  /\ sLeft[w] # << >>
  /\ \E k \in 1..Len(sLeft[w]) :
       /\ sWire' = sWire \o SubSeq(sLeft[w], 1, k)
       /\ sLeft' = [sLeft EXCEPT ![w] = SubSeq(sLeft[w], k + 1, Len(sLeft[w]))]
  /\ UNCHANGED sPayload
  /\ UNCHANGED << bridgeVars, frameVars, helperVars >>

NextSend == \E w \in Writers : S_Sendall(w)

SpecSend == InitSend /\ [][NextSend]_vars

\* What the receiver's recv_frame calls return for a stream: the payloads of
\* the frames it reads until a header or a payload is incomplete.
RECURSIVE recv_frames(_)
recv_frames(stream) ==
  IF Len(stream) < HeaderLen THEN << >>
  ELSE LET length == struct_unpack(SubSeq(stream, 1, HeaderLen))
           rest == SubSeq(stream, HeaderLen + 1, Len(stream))
       IN  IF Len(rest) < length THEN << >>
           ELSE << SubSeq(rest, 1, length) >>
                \o recv_frames(SubSeq(rest, length + 1, Len(rest)))

\* ------------------------------------------------- tcp_helpers.py helpers
\* A plausible slip: a truth test in the place of `is not None`
\* (`if obj.get("data"): return obj["data"]`).
extract_payload_Truthy(obj) ==
  IF obj.data # Missing /\ Truthy(obj.data) THEN obj.data
  ELSE IF obj.morphs # Missing /\ Truthy(obj.morphs) THEN obj.morphs
  ELSE IF obj.controllers # Missing /\ Truthy(obj.controllers)
       THEN obj.controllers
  ELSE PyNone

\* extract_payload(obj): data, else morphs, else controllers, each taken
\* when the key is in obj and its value is not None; else None.
extract_payload(obj) ==
  IF obj.data \notin {Missing, PyNone} THEN obj.data
  ELSE IF obj.morphs \notin {Missing, PyNone} THEN obj.morphs
  ELSE IF obj.controllers \notin {Missing, PyNone} THEN obj.controllers
  ELSE PyNone

\* cmd.endswith(suffix), the suffix being one piece of the string.
endswith(cmd, suffix) ==
  cmd.str # << >> /\ cmd.str[Len(cmd.str)] = suffix

ReadAllMorphs == PyStr(<< "read_all_morphs" >>)
ReadAllControllers == PyStr(<< "read_all_controllers" >>)
ResultOf(cmd) == PyStr(Append(cmd.str, "_result"))

\* A plausible slip: no early return for a command that ends in _result.
normalize_cmd_NoResultReturn(cmd, obj, payload) ==
  IF /\ payload # PyNone
     /\ obj.morphs # Missing
     /\ cmd \notin {ReadAllMorphs, ResultOf(ReadAllMorphs)}
  THEN ReadAllMorphs
  ELSE IF /\ payload # PyNone
          /\ obj.controllers # Missing
          /\ cmd \notin {ReadAllControllers, ResultOf(ReadAllControllers)}
       THEN ReadAllControllers
  ELSE IF Truthy(cmd) THEN cmd ELSE PyStr(<< >>)

\* A plausible slip: the controllers key is looked at before the morphs key.
normalize_cmd_ControllersFirst(cmd, obj, payload) ==
  IF Truthy(cmd) /\ endswith(cmd, "_result") THEN cmd
  ELSE IF /\ payload # PyNone
          /\ obj.controllers # Missing
          /\ cmd \notin {ReadAllControllers, ResultOf(ReadAllControllers)}
       THEN ReadAllControllers
  ELSE IF /\ payload # PyNone
          /\ obj.morphs # Missing
          /\ cmd \notin {ReadAllMorphs, ResultOf(ReadAllMorphs)}
       THEN ReadAllMorphs
  ELSE IF Truthy(cmd) THEN cmd ELSE PyStr(<< >>)

\* normalize_cmd(cmd, obj, payload)
normalize_cmd(cmd, obj, payload) ==
  IF Truthy(cmd) /\ endswith(cmd, "_result") THEN cmd
  ELSE IF /\ payload # PyNone
          /\ obj.morphs # Missing
          /\ cmd \notin {ReadAllMorphs, ResultOf(ReadAllMorphs)}
       THEN ReadAllMorphs
  ELSE IF /\ payload # PyNone
          /\ obj.controllers # Missing
          /\ cmd \notin {ReadAllControllers, ResultOf(ReadAllControllers)}
       THEN ReadAllControllers
  ELSE IF Truthy(cmd) THEN cmd ELSE PyStr(<< >>)

\* send_set_controller(conn, controllers): the frames it sends.  `if not
\* controllers: return`; controllers = normalize_controllers(controllers);
\* `if not controllers: return`; send_frame of the set_controller payload.
send_set_controller(controllers) ==
  IF controllers = << >> THEN << >>
  ELSE IF normalize_controllers(controllers) = << >> THEN << >>
  ELSE << [cmd |-> "set_controller",
           data |-> normalize_controllers(controllers)] >>

\* The arguments the helpers are exercised with.
MaxControllers == 2
Cmds ==
  { PyNone, PyStr(<< >>), PyStr(<< "x" >>), PyStr(<< "_result", "x" >>),
    ReadAllMorphs, ReadAllControllers,
    ResultOf(PyStr(<< "x" >>)), ResultOf(ReadAllMorphs),
    ResultOf(ReadAllControllers) }
KeyValues(k) == { Missing, PyNone, PyList(<< >>), PyList(<< k >>) }
Envelopes ==
  [data : KeyValues("d"), morphs : KeyValues("m"),
   controllers : KeyValues("c")]
CallerPayloads == { PyNone, PyList(<< >>), PyList(<< "p" >>) }
Ids ==
  { Missing, PyNone, PyStr(<< >>), PyStr(<< " " >>), PyStr(<< "c1" >>),
    PyInt(0), PyInt(12) }
Rotations ==
  { Missing, PyNone }
  \cup [x : {PyInt(0)}, w : {Missing, PyNone, PyInt(0), PyFloat(2)}]
Entries == [id : Ids, rotation : Rotations, position : {PyInt(3)}]
ControllerLists == UNION { [1..k -> Entries] : k \in 0..MaxControllers }

\* A caller holds a cmd and a parsed message, or a list of controllers.
InitHelpers ==
  /\ InitBridge
  /\ pop = [tcp |-> {}, ws |-> {}]
  /\ InitFrameIdle
  /\ InitSendIdle
  /\ hPayload = PyNone
  /\ hOut = << >>
  /\ hNormalized = << >>
  /\ hSent = << >>
  /\ \/ /\ hpc = "cmd"
        /\ hCmd \in Cmds
        /\ hObj \in Envelopes
        /\ hControllers = << >>
     \/ /\ hpc = "controllers"
        /\ hCmd = PyNone
        /\ hObj = PyNone
        /\ hControllers \in ControllerLists

\* payload = extract_payload(obj)
H_ExtractPayload ==
  /\ hpc = "cmd"
  /\ hPayload' = extract_payload(hObj)
  /\ hpc' = "extracted"
  /\ UNCHANGED << hCmd, hObj, hOut, hControllers, hNormalized, hSent >>
  /\ UNCHANGED << bridgeVars, frameVars, sendVars >>

\* The caller passes a payload of its own to normalize_cmd.
H_CallerPayload ==
  /\ hpc = "cmd"
  /\ hPayload' \in CallerPayloads
  /\ hpc' = "given"
  /\ UNCHANGED << hCmd, hObj, hOut, hControllers, hNormalized, hSent >>
  /\ UNCHANGED << bridgeVars, frameVars, sendVars >>

\* cmd = normalize_cmd(cmd, obj, payload)
H_NormalizeCmd ==
  /\ hpc \in {"extracted", "given"}
  /\ hOut' = << normalize_cmd(hCmd, hObj, hPayload) >>
  /\ hpc' = "once"
  /\ UNCHANGED << hCmd, hObj, hPayload, hControllers, hNormalized, hSent >>
  /\ UNCHANGED << bridgeVars, frameVars, sendVars >>

\* normalize_cmd called on its own result, same obj and payload.
H_NormalizeAgain ==
  /\ hpc = "once"
  /\ hOut' = Append(hOut, normalize_cmd(hOut[1], hObj, hPayload))
  /\ hpc' = "twice"
  /\ UNCHANGED << hCmd, hObj, hPayload, hControllers, hNormalized, hSent >>
  /\ UNCHANGED << bridgeVars, frameVars, sendVars >>

\* normalized = normalize_controllers(controllers)
H_NormalizeControllers ==
  /\ hpc = "controllers"
  /\ hNormalized' = normalize_controllers(hControllers)
  /\ hpc' = "normalized"
  /\ UNCHANGED << hCmd, hObj, hPayload, hOut, hControllers, hSent >>
  /\ UNCHANGED << bridgeVars, frameVars, sendVars >>

\* send_set_controller(conn, controllers)
H_SendSetController ==
  /\ hpc = "normalized"
  /\ hSent' = send_set_controller(hControllers)
  /\ hpc' = "sent"
  /\ UNCHANGED << hCmd, hObj, hPayload, hOut, hControllers, hNormalized >>
  /\ UNCHANGED << bridgeVars, frameVars, sendVars >>

NextHelpers ==
  \/ H_ExtractPayload
  \/ H_CallerPayload
  \/ H_NormalizeCmd
  \/ H_NormalizeAgain
  \/ H_NormalizeControllers
  \/ H_SendSetController

SpecHelpers == InitHelpers /\ [][NextHelpers]_vars

\* ============================================================== properties
IsPrefix(s, t) == Len(s) <= Len(t) /\ SubSeq(t, 1, Len(s)) = s

\* ------------------------------------------------------------------ bridge
Has(seq, m) == \E i \in DOMAIN seq : seq[i] = m
Copies(seq, m) == Cardinality({ i \in DOMAIN seq : seq[i] = m })
SetMax(S) == CHOOSE x \in S : \A y \in S : y <= x
OrEmpty(v) == IF v = Absent THEN "" ELSE v

\* A forward loop in progress: the connections of its snapshot it is done
\* with, those it called send_frame for, and whether a connection's registry
\* entry is what it was when the snapshot was taken.
ScanVisited(b) == (DOMAIN scanStart[b]) \ (scanTodo[b] \cup {scanCur[b]})
ScanAttempted(b) == scanSent[b] \cup scanFailed[b]
ScanStable(b, c) == c \in DOMAIN scanStart[b] /\ regEpoch[c] = scanStart[b][c]
IdentityIs(c, id, name) ==
  c \in DOMAIN tcp_identities /\ tcp_identities[c] = [id |-> id, name |-> name]

\* C1: a browser's non-hello message goes, as one frame each, to every native
\* connection whose registered identity equals the message's id and name
\* (several, when several registered that identity) and to no native
\* connection whose identity differs: of the connections the forward loop is
\* done with and whose registry entry did not change meanwhile, send_frame
\* was called for exactly those with the target identity, and a connection's
\* stream holds the message once if the send succeeded and not at all
\* otherwise.
C1_TargetedForward ==
  \A b \in WsConns : wpc[b] = "scan" =>
    /\ ScanAttempted(b) \subseteq ScanVisited(b)
    /\ \A c \in ScanVisited(b) : ScanStable(b, c) =>
         (c \in ScanAttempted(b) <=> IdentityIs(c, wobj[b].id, wobj[b].name))
    /\ \A c \in TcpConns :
         Copies(tcpOut[c], wobj[b]) = IF c \in scanSent[b] THEN 1 ELSE 0

\* C1 witness: a forward loop has gone through two registered connections;
\* the one with the target identity has the frame, the other was passed over.
C1_MatchSentOtherSkipped ==
  \E b \in WsConns :
    /\ wpc[b] = "scan"
    /\ scanTodo[b] = {}
    /\ scanCur[b] = "none"
    /\ ScanStable(b, "t1") /\ ScanStable(b, "t2")
    /\ scanSent[b] = {"t1"}
    /\ scanFailed[b] = {}
    /\ "t2" \in DOMAIN tcp_identities

\* Two connections registered the same identity and both have the frame.
C1_DuplicateIdentityBothSent ==
  \E b \in WsConns :
    /\ wpc[b] = "scan"
    /\ scanSent[b] = {"t1", "t2"}
    /\ ScanStable(b, "t1") /\ ScanStable(b, "t2")

\* A broadcast coroutine starts, and what one `await ws.send` of message m to
\* browser b leaves behind: the message on b's stream, or b out of the live
\* set.
StartStep == loopQueue # << >> /\ loopQueue' = Tail(loopQueue)
Attempted(b, m) ==
  \/ wsOut'[b] = Append(wsOut[b], m)
  \/ b \notin ws_clients' /\ wsOut'[b] = wsOut[b]

\* The coroutine that starts takes the whole live set as its snapshot and
\* makes its first send.
BroadcastTakesLiveSet ==
  StartStep =>
    LET m == Head(loopQueue).msg
    IN \/ ws_clients = {} /\ wsOut' = wsOut /\ bcasts' = bcasts
       \/ \E b \in ws_clients :
            /\ Attempted(b, m)
            /\ \/ ws_clients = {b} /\ bcasts' = bcasts
               \/ \E t \in bcasts' \ bcasts :
                    /\ t.msg = m
                    /\ t.snap = ws_clients
                    /\ t.todo = ws_clients \ {b}

\* A coroutine that goes on sends to one more browser of its snapshot, and is
\* over only when none is left.
BroadcastGoesOn ==
  \A t \in bcasts : t \notin bcasts' =>
    \E b \in t.todo :
      /\ Attempted(b, t.msg)
      /\ \/ t.todo = {b}
         \/ \E t2 \in bcasts' :
              t2.msg = t.msg /\ t2.snap = t.snap /\ t2.todo = t.todo \ {b}

\* A suspended coroutine has sent to a part of its snapshot and has the rest
\* to do.
BroadcastPending ==
  \A t \in bcasts :
    /\ t.todo # {}
    /\ t.todo \cup t.sent \cup t.failed = t.snap
    /\ t.todo \cap (t.sent \cup t.failed) = {}
    /\ \A b \in t.sent : Copies(wsOut[b], t.msg) = 1

\* A thread that reads a command other than hello hands it over for
\* broadcast, whatever the registry holds for its connection.
C2_Submit ==
  \A c \in TcpConns : (cmds' = cmds + 1 /\ tIn'[c] = tIn[c] + 1) =>
    /\ Len(loopQueue') = Len(loopQueue) + 1
    /\ SubSeq(loopQueue', 1, Len(loopQueue)) = loopQueue
    /\ LET e == loopQueue'[Len(loopQueue')]
       IN e.msg.cmd = "evt" /\ e.msg.src = c /\ e.msg.n = tIn'[c]

\* C2: every command other than hello that a native connection sends,
\* registered or not, is submitted for broadcast, and the broadcast attempts
\* delivery to every browser of the live set, filtering neither by identity
\* nor by target.
C2_NativeCommandsBroadcast ==
  /\ []BroadcastPending
  /\ [][C2_Submit /\ BroadcastTakesLiveSet /\ BroadcastGoesOn]_vars

\* C2 witness: the command of a native connection that never registered is on
\* the streams of two browsers that never registered either.
C2_UnregisteredReachesAll ==
  \E c \in TcpConns :
    /\ regEpoch[c] = 0
    /\ ws_identities = << >>
    /\ \A b \in WsConns :
         \E i \in DOMAIN wsOut[b] :
           wsOut[b][i].cmd = "evt" /\ wsOut[b][i].src = c

\* The acknowledgement a hello is answered with.
AckFor(hello) ==
  [cmd |-> "acknowledge", ack |-> "hello", id |-> OrEmpty(hello.id),
   name |-> OrEmpty(hello.name), src |-> hello.src, n |-> hello.n]

\* Once the acknowledgement is written to the native connection, the
\* connection's stream holds it and the registry holds the hello's identity.
C3_AckWritten ==
  \A c \in TcpConns : tpc[c] = "hello_bcast" =>
    /\ Copies(tcpOut[c], AckFor(tobj[c])) = 1
    /\ IdentityIs(c, OrEmpty(tobj[c].id), OrEmpty(tobj[c].name))

\* The thread then hands the same acknowledgement over for broadcast.
C3_AckSubmitted ==
  \A c \in TcpConns : (tpc[c] = "hello_bcast" /\ tpc'[c] # "hello_bcast") =>
    loopQueue' = Append(loopQueue, [msg |-> AckFor(tobj[c]), at |-> ws_clients])

\* The broadcast of an acknowledgement goes to the browsers live when it
\* starts.
C3_AckBroadcast ==
  /\ (loopQueue # << >> /\ Head(loopQueue).msg.cmd = "acknowledge")
       => BroadcastTakesLiveSet
  /\ \A t \in bcasts : (t.msg.cmd = "acknowledge" /\ t \notin bcasts') =>
       \E b \in t.todo : Attempted(b, t.msg)

\* C3 (as the code has it): after a native connection's hello, once the
\* acknowledgement {cmd: acknowledge, ack: hello, id, name} is written to
\* that connection, its identity (id, name) is registered, the same
\* acknowledgement is handed over for broadcast, and the broadcast sends it
\* to every browser that is in the live set when the broadcast starts.
C3_HandshakeAck ==
  /\ []C3_AckWritten
  /\ [][C3_AckSubmitted /\ C3_AckBroadcast]_vars

\* C3 witness: the acknowledgement of a native hello is on the native
\* connection's stream and on a browser's, and the identity is registered.
C3_AckAtNativeAndBrowser ==
  \E c \in TcpConns : \E b \in WsConns : \E i \in DOMAIN wsOut[b] :
    /\ wsOut[b][i].cmd = "acknowledge"
    /\ wsOut[b][i].src = c
    /\ Has(tcpOut[c], wsOut[b][i])
    /\ IdentityIs(c, wsOut[b][i].id, wsOut[b][i].name)

\* The broadcast of message m is over after this step.
Finished(m) == ~ \E t \in bcasts' : t.msg = m

C3_AtHelloStep ==
  /\ (StartStep /\ Head(loopQueue).msg.cmd = "acknowledge"
        /\ Finished(Head(loopQueue).msg))
       => \A b \in Head(loopQueue).at : Has(wsOut'[b], Head(loopQueue).msg)
  /\ \A t \in bcasts : (t.msg.cmd = "acknowledge" /\ Finished(t.msg)) =>
       \A b \in t.at : Has(wsOut'[b], t.msg)

\* C3 as stated: every browser connected at the time of the handshake
\* receives the acknowledgement: when its broadcast is over, every browser
\* that was in the live set when the acknowledgement was handed over has it
\* on its stream.
C3_EveryBrowserAtHelloGetsAck == [][C3_AtHelloStep]_vars

\* C4: a browser's hello registers that browser's identity and is answered
\* with an acknowledgement to that browser only: nothing a browser sends
\* reaches another browser, nothing but a forwarded command reaches a native
\* connection from a browser, nothing of a browser's is handed over for
\* broadcast, and a connected browser's registry entry is the id and name of
\* the last acknowledgement it was sent.
C4_BrowserHelloAckOnlyToSender ==
  /\ \A b \in WsConns : \A i \in DOMAIN wsOut[b] :
       wsOut[b][i].src \in WsConns =>
         /\ wsOut[b][i].src = b
         /\ wsOut[b][i].cmd = "acknowledge"
         /\ wsOut[b][i].ack = "hello"
         /\ wsOut[b][i].id # Absent
         /\ wsOut[b][i].name # Absent
  /\ \A c \in TcpConns : \A i \in DOMAIN tcpOut[c] :
       tcpOut[c][i].src \in WsConns =>
         tcpOut[c][i].cmd \notin {"hello", "acknowledge"}
  /\ \A i \in DOMAIN loopQueue : loopQueue[i].msg.src \in TcpConns
  /\ \A t \in bcasts : t.msg.src \in TcpConns
  /\ \A b \in WsConns :
       LET own == { i \in DOMAIN wsOut[b] : wsOut[b][i].src = b }
       IN /\ b \in DOMAIN ws_identities => own # {}
          /\ (own # {} /\ wpc[b] # "done") =>
               /\ b \in DOMAIN ws_identities
               /\ ws_identities[b] = [id |-> wsOut[b][SetMax(own)].id,
                                      name |-> wsOut[b][SetMax(own)].name]

\* C4 witness: a browser has its acknowledgement and is registered while
\* another browser and a native connection, both live, were sent nothing.
C4_AckAtSenderOnly ==
  /\ "b1" \in DOMAIN ws_identities
  /\ Len(wsOut["b1"]) = 1
  /\ "b2" \in ws_clients
  /\ wsOut["b2"] = << >>
  /\ "t1" \in tcp_clients
  /\ tcpOut["t1"] = << >>

\* ------------------------------------------------------------- frame codec
\* The bytes the reader has taken of the frame it is reading.
Partial == IF fStage = "header" THEN fBuf ELSE struct_pack(fNeed) \o fBuf

\* The frames that lie wholly within the first `cut` bytes of the stream.
RECURSIVE WholeFrames(_, _)
WholeFrames(payloads, cut) ==
  IF payloads = << >> \/ Len(FrameBytes(Head(payloads))) > cut
  THEN 0
  ELSE 1 + WholeFrames(Tail(payloads), cut - Len(FrameBytes(Head(payloads))))

\* Lengths on both sides of each byte boundary of the header.
SampleLengths == {0, 1, 255, 256, 257, 65535, 65536, 16777215, 16777216,
                  2147483647}

\* The header is four bytes, each below 256, and decodes to the length it
\* was made from.
HeaderRoundTrip ==
  \A n \in SampleLengths :
    /\ Len(struct_pack(n)) = HeaderLen
    /\ \A i \in 1..HeaderLen : struct_pack(n)[i] \in 0..(ByteBase - 1)
    /\ struct_unpack(struct_pack(n)) = n

\* C5: what send_frame wrote, recv_frame returns: however the stream is cut
\* into chunks, the payloads read are the payloads written, in order; every
\* byte taken from the stream belongs to exactly one frame (the frames read,
\* the frame in progress and the bytes not yet read make up the stream); the
\* header never fails to decode, and decodes to the length it encodes; and a
\* stream of whole frames is read to its last payload before the read at its
\* end raises.
C5_FrameRoundTrip ==
  /\ HeaderRoundTrip
  /\ fState # "struct_error"
  /\ IsPrefix(fGot, fPayloads)
  /\ StreamOf(fGot) \o Partial \o fStream = SubSeq(StreamOf(fPayloads), 1, fCut)
  /\ (fState = "error" /\ fCut = Len(StreamOf(fPayloads)) => fGot = fPayloads)

\* C5 witness: two different two-byte payloads written back to back were both
\* read, and some recv_exact call needed more than one chunk.
C5_BackToBackChunked ==
  /\ fState = "error"
  /\ Len(fPayloads) = 2
  /\ Len(fPayloads[1]) = 2
  /\ Len(fPayloads[2]) = 2
  /\ fPayloads[1] # fPayloads[2]
  /\ fGot = fPayloads
  /\ fSplit

C6_NoTruncatedPayload ==
  /\ Len(fGot) <= WholeFrames(fPayloads, fCut)
  /\ \A i \in 1..Len(fGot) : i <= Len(fPayloads) /\ fGot[i] = fPayloads[i]
  /\ (fState = "error" =>
        /\ fStream = << >>
        /\ fGot = SubSeq(fPayloads, 1, WholeFrames(fPayloads, fCut)))

C6_EofRaises ==
  (fState = "reading" /\ fStream = << >> /\ Len(fBuf) < fNeed)
    => (fState' = "error" /\ fGot' = fGot)

\* C6: when the stream closes before the 4 + n bytes of a frame have all
\* arrived, the read raises the closed-connection error: a read that finds
\* the stream closed and drained while bytes are missing ends in the error
\* and returns nothing, so only frames that arrived whole are ever returned,
\* each with the payload that was written.
C6_ShortStreamFails == []C6_NoTruncatedPayload /\ [][C6_EofRaises]_vars

\* C6 witness: the stream closed inside the second frame's payload; the
\* first frame was returned, the bytes of the second were not.
C6_ClosedMidPayload ==
  /\ fState = "error"
  /\ fStage = "payload"
  /\ fBuf # << >>
  /\ Len(fBuf) < fNeed
  /\ Len(fGot) = 1

\* ------------------------------------------------------------------ bridge
\* C7: a native connection with no recorded identity is never sent a
\* forwarded browser message, also when the message names no id and no name:
\* a connection that never said hello has no forwarded frame on its stream,
\* and a forward loop calls send_frame for no connection whose registry entry
\* is missing and was missing when the loop began.
C7_NoIdentityNoForward ==
  /\ \A c \in TcpConns : regEpoch[c] = 0 =>
       \A i \in DOMAIN tcpOut[c] : tcpOut[c][i].src \notin WsConns
  /\ \A b \in WsConns : wpc[b] = "scan" =>
       \A c \in DOMAIN scanStart[b] :
         (ScanStable(b, c) /\ c \notin DOMAIN tcp_identities) =>
           (c \notin ScanAttempted(b) /\ scanCur[b] # c)

\* C7 witness: a forward loop for a message without id and name is done with
\* a live connection that never said hello, and sent it nothing.
C7_AbsentTargetSkipsUnregistered ==
  \E b \in WsConns : \E c \in ScanVisited(b) :
    /\ wpc[b] = "scan"
    /\ wobj[b].id = None
    /\ wobj[b].name = None
    /\ regEpoch[c] = 0
    /\ c \in tcp_clients
    /\ tcpOut[c] = << >>

\* A connection whose handler is over is in no live set and no registry.
C8_Removed ==
  /\ \A c \in TcpConns : tpc[c] = "done" =>
       c \notin tcp_clients /\ c \notin DOMAIN tcp_identities
  /\ \A b \in WsConns : wpc[b] = "done" =>
       b \notin ws_clients /\ b \notin DOMAIN ws_identities

\* The statements of a handler's finally block touch its own entries only.
C8_OthersUntouched ==
  /\ \A c \in TcpConns :
       (tpc'[c] # tpc[c] /\ tpc'[c] \in {"pop", "close", "done"}) =>
         /\ \A d \in TcpConns \ {c} :
              /\ d \in tcp_clients' <=> d \in tcp_clients
              /\ DictGet(tcp_identities', d) = DictGet(tcp_identities, d)
         /\ ws_clients' = ws_clients
         /\ ws_identities' = ws_identities
  /\ \A b \in WsConns :
       (wpc'[b] # wpc[b] /\ wpc'[b] = "done") =>
         /\ \A d \in WsConns \ {b} :
              /\ d \in ws_clients' <=> d \in ws_clients
              /\ DictGet(ws_identities', d) = DictGet(ws_identities, d)
         /\ tcp_clients' = tcp_clients
         /\ tcp_identities' = tcp_identities

\* C8: when a connection's read loop ends, for whatever reason, on either
\* side, the connection is removed from its live set and its identity from
\* the registry (and a native socket is closed) before the handler is over,
\* and no other connection's entries are changed by it.
C8_CleanupOnEveryExit == []C8_Removed /\ [][C8_OthersUntouched]_vars

\* C8 witness: a native connection that had registered and a browser are
\* over, and another native connection is still live and registered.
C8_OneGoneOtherStays ==
  /\ tpc["t1"] = "done"
  /\ regEpoch["t1"] > 0
  /\ wpc["b1"] = "done"
  /\ "t2" \in tcp_clients
  /\ "t2" \in DOMAIN tcp_identities

\* Connection c's read loop ends at a frame that does not parse: the peer is
\* still there, and the thread leaves `recv` for its finally clause.
BadFrameStep(c) == tpc[c] = "recv" /\ tpc'[c] = "pop" /\ peerOpen'[c]
BadFrameEnded(c) == tpc[c] \in {"pop", "close", "done"} /\ peerOpen[c]

\* The step takes c out of the live set and changes nothing of any other
\* connection, native or browser.
BadFrameClosesOnlyThat ==
  \A c \in TcpConns : BadFrameStep(c) =>
    /\ c \notin tcp_clients'
    /\ \A d \in TcpConns \ {c} :
         /\ tpc'[d] = tpc[d]
         /\ d \in tcp_clients' <=> d \in tcp_clients
         /\ DictGet(tcp_identities', d) = DictGet(tcp_identities, d)
         /\ tcpOut'[d] = tcpOut[d]
    /\ ws_clients' = ws_clients /\ ws_identities' = ws_identities
    /\ wpc' = wpc /\ loopRun' = loopRun /\ loopQueue' = loopQueue

\* With c ended that way the accept loop takes the next connection, and a
\* connection in its read loop is read from: its hello and its commands are
\* taken (while the run has any left to send).
OthersServedAfterBadFrame ==
  \A c \in TcpConns : BadFrameEnded(c) =>
    \A d \in TcpConns \ {c} :
      /\ (tpc[d] = "init" /\ d \in pop.tcp) => ENABLED T_Accept(d)
      /\ (tpc[d] = "recv" /\ peerOpen[d]) =>
           /\ hellos < MaxHellos => ENABLED T_RecvHello(d)
           /\ cmds < MaxCmds => ENABLED T_RecvCmd(d)

\* C14: a frame from a native connection that does not parse as a JSON
\* object closes that connection only: its read loop ends and it is cleaned
\* up, the accept loop keeps accepting, and every other native connection
\* keeps its identity and keeps being served.
C14_BadFrameClosesOnlyThatConnection ==
  /\ []OthersServedAfterBadFrame
  /\ []C8_Removed
  /\ [][BadFrameClosesOnlyThat]_vars

\* C14 witness: t1 was ended by a bad frame and cleaned up; t2, registered,
\* was then sent a browser's message by a forward loop whose snapshot was
\* taken without t1.
C14_BadFrameThenOtherServed ==
  \E b \in WsConns :
    /\ tpc["t1"] = "done" /\ peerOpen["t1"]
    /\ "t1" \notin tcp_clients /\ "t1" \notin DOMAIN tcp_identities
    /\ wpc[b] = "scan"
    /\ DOMAIN scanStart[b] = {"t2"}
    /\ scanSent[b] = {"t2"}
    /\ "t2" \in DOMAIN tcp_identities

\* C15: a malformed browser message, one that is not JSON or one without
\* the cmd field, is discarded: it is forwarded to no native connection (no
\* native connection's stream ever holds a browser's message without cmd).
C15_MalformedBrowserMessageDiscarded ==
  \A c \in TcpConns : \A i \in DOMAIN tcpOut[c] :
    tcpOut[c][i].src \in WsConns => tcpOut[c][i].cmd # Absent

\* No connection of b's snapshot has the identity b's message is addressed
\* to (none registered or re-registered since the snapshot was taken).
RoutingMiss(b) ==
  /\ wpc[b] = "scan"
  /\ \A c \in DOMAIN scanStart[b] :
       ScanStable(b, c) /\ ~IdentityIs(c, wobj[b].id, wobj[b].name)

\* On a miss send_frame is never called and no stream holds the message.
MissSendsNothing ==
  \A b \in WsConns : RoutingMiss(b) =>
    /\ ScanAttempted(b) = {}
    /\ scanCur[b] = "none"
    /\ \A c \in TcpConns : Copies(tcpOut[c], wobj[b]) = 0
    /\ \A d \in WsConns : Copies(wsOut[d], wobj[b]) = 0

\* A step of b's forward (it starts, looks at a connection, ends) writes to
\* no browser and changes no registry and no live set; a forward that ends
\* having sent to nobody has changed no stream at all.
ForwardStep(b) ==
  /\ wpc[b] = "scan" \/ wpc'[b] = "scan"
  /\ wpc'[b] # wpc[b] \/ scanTodo'[b] # scanTodo[b] \/ scanCur'[b] # scanCur[b]
ForwardIsSilent ==
  \A b \in WsConns : ForwardStep(b) =>
    /\ wsOut' = wsOut
    /\ ws_clients' = ws_clients /\ ws_identities' = ws_identities
    /\ tcp_clients' = tcp_clients /\ tcp_identities' = tcp_identities
    /\ (ScanAttempted(b) = {} /\ scanCur[b] = "none") => tcpOut' = tcpOut

\* C16: when no live native connection has the identity a browser's message
\* is addressed to, the message is dropped: no frame is sent to any native
\* connection, no reply goes to the browser, and no registry or live set
\* changes.
C16_RoutingMissDropsSilently == []MissSendsNothing /\ [][ForwardIsSilent]_vars

\* C16 witness: a forward addressed to (p1, B) has gone through its whole
\* snapshot, in which t1 is registered as (p1, A): nothing was sent.
C16_MissOverRegisteredConnection ==
  \E b \in WsConns :
    /\ RoutingMiss(b)
    /\ wobj[b].id = "p1" /\ wobj[b].name = "B"
    /\ IdentityIs("t1", "p1", "A")
    /\ "t1" \in DOMAIN scanStart[b]
    /\ scanTodo[b] = {}
    /\ tcpOut["t1"] = << AckOf([id |-> "p1", name |-> "A", src |-> "t1", n |-> 1]) >>
    /\ wsOut[b] = << >>

\* C17: a set_controller message forwarded from a browser carries
\* normalized controllers: on every native connection's stream its list is
\* what normalize_controllers makes of it, with no entry without an id and
\* no entry without rotation.w.
C17_ForwardedControllersNormalized ==
  \A c \in TcpConns : \A i \in DOMAIN tcpOut[c] :
    tcpOut[c][i].cmd = "set_controller" =>
      /\ tcpOut[c][i].controllers = normalize_controllers(tcpOut[c][i].controllers)
      /\ \A k \in DOMAIN tcpOut[c][i].controllers :
           /\ tcpOut[c][i].controllers[k].id \notin {Missing, PyNone, PyStr(<< >>)}
           /\ tcpOut[c][i].controllers[k].rotation.w \notin {Missing, PyNone}

\* C18: the acknowledgement of a native connection's hello is sent to it
\* before its identity is registered, so the connection receives no forwarded
\* browser message before its own acknowledgement: on every native
\* connection's stream a browser's message comes after an acknowledgement.
C18_AckBeforeAnyForward ==
  \A c \in TcpConns : \A i \in DOMAIN tcpOut[c] :
    tcpOut[c][i].src \in WsConns =>
      \E j \in 1..(i - 1) :
        tcpOut[c][j].cmd = "acknowledge" /\ tcpOut[c][j].src = c

\* Browser b's handler is inside send_frame(conn, wire): sendall has not
\* returned, which it does only when the peer's socket has taken the frame or
\* has failed.
InSendFrame(b) == wpc[b] = "scan" /\ scanCur[b] # "none"

\* C19: a browser handler never blocks the scheduler: while b's message is
\* being written to a native connection, however long its peer takes, the
\* loop can start a broadcast that is waiting in its queue, go on with a
\* suspended one, and take the next message of any other browser.
C19_SchedulerNotBlockedBySend ==
  \A b \in WsConns : InSendFrame(b) =>
    /\ loopQueue # << >> => ENABLED L_BroadcastStart
    /\ bcasts # {} => ENABLED L_BroadcastSend
    /\ \A d \in WsConns \ {b} : wpc[d] = "recv" =>
         ENABLED (W_RecvBad(d) \/ W_RecvNonDict(d) \/ W_End(d))

\* A registry entry is one (id, name) pair, and a connection has one only
\* after a hello was read from it.
Identities == [id : {"", "p1", "p2", "w1"}, name : {"", "A", "B"}]
OneIdentityAfterHello ==
  /\ \A c \in DOMAIN tcp_identities :
       c \in TcpConns /\ tcp_identities[c] \in Identities /\ tIn[c] > 0
  /\ \A b \in DOMAIN ws_identities :
       b \in WsConns /\ ws_identities[b] \in Identities /\ wIn[b] > 0
  /\ \A c \in TcpConns : tIn[c] = 0 => c \notin DOMAIN tcp_identities
  /\ \A b \in WsConns : wIn[b] = 0 => b \notin DOMAIN ws_identities

\* A hello read from a native connection makes the hello's (id, name) its
\* registry entry, whatever the entry was, and changes no other entry.
HelloOverwrites ==
  \A c \in TcpConns : (hellos' = hellos + 1 /\ tIn'[c] = tIn[c] + 1) =>
    /\ c \in DOMAIN tcp_identities'
    /\ tcp_identities'[c] = [id |-> OrEmpty(tobj'[c].id),
                             name |-> OrEmpty(tobj'[c].name)]
    /\ \A d \in TcpConns \ {c} :
         DictGet(tcp_identities', d) = DictGet(tcp_identities, d)

\* A forward goes by the entry the registry holds when the loop looks: of the
\* connections it is done with (whose entry did not change meanwhile) it
\* called send_frame for those whose present identity is the target, and for
\* no other.
RoutingByPresentIdentity ==
  \A b \in WsConns : wpc[b] = "scan" =>
    \A c \in ScanVisited(b) : ScanStable(b, c) =>
      (c \in ScanAttempted(b) <=>
         DictGet(tcp_identities, c) = [id |-> wobj[b].id, name |-> wobj[b].name])

\* C20: a connection has at most one identity at any time and has one only
\* after it sent hello; a second hello on the same connection overwrites the
\* first, after which forwards addressed to the old (id, name) no longer reach
\* it and forwards addressed to the new one do.
C20_OneIdentityLastHelloWins ==
  /\ []OneIdentityAfterHello
  /\ []RoutingByPresentIdentity
  /\ [][HelloOverwrites]_vars

\* C20 witness: t1 said hello as (p1, A) and then as (p2, A), both
\* acknowledged; a forward addressed to (p1, A) then went past t1 without
\* sending.
C20_OldIdentityNoLongerReached ==
  \E b \in WsConns :
    /\ IdentityIs("t1", "p2", "A")
    /\ tcpOut["t1"] =
         << AckOf([id |-> "p1", name |-> "A", src |-> "t1", n |-> 1]),
            AckOf([id |-> "p2", name |-> "A", src |-> "t1", n |-> 2]) >>
    /\ wpc[b] = "scan"
    /\ wobj[b].id = "p1" /\ wobj[b].name = "A"
    /\ "t1" \in ScanVisited(b)
    /\ scanStart[b]["t1"] = 2 /\ ScanStable(b, "t1")
    /\ "t1" \notin ScanAttempted(b)

\* A step of a native connection's thread.
ThreadStep == tpc' # tpc \/ tIn' # tIn

C9_Confined ==
  /\ ThreadStep =>
       /\ UNCHANGED << ws_clients, ws_identities, wsOut, bcasts >>
       /\ \/ loopQueue' = loopQueue
          \/ /\ Len(loopQueue') = Len(loopQueue) + 1
             /\ SubSeq(loopQueue', 1, Len(loopQueue)) = loopQueue
  /\ (wsOut' # wsOut \/ ws_clients' # ws_clients
        \/ ws_identities' # ws_identities) => loopRun = "none"

\* C9: a native connection's handler does nothing to a browser's transport:
\* a thread's step changes neither a browser's stream nor the browsers' live
\* set and registry nor a running broadcast; all it does is hand a broadcast
\* over to the loop, where it runs when no handler occupies the loop.
C9_DispatchBridge == [][C9_Confined]_vars

\* C9 witness: a browser has a native connection's message while that
\* connection's thread has handed the next broadcast over and gone on.
C9_HandedOverAndDelivered ==
  \E c \in TcpConns : \E b \in WsConns :
    /\ \E i \in DOMAIN wsOut[b] : wsOut[b][i].src = c
    /\ loopQueue # << >>
    /\ Head(loopQueue).msg.src = c
    /\ tpc[c] = "recv"

\* The forward loop reads the registry entry of the next connection of its
\* snapshot.
ScanReads(b, c) ==
  /\ wpc[b] = "scan"
  /\ c \in scanTodo[b]
  /\ scanTodo'[b] = scanTodo[b] \ {c}

\* C10: accesses to the live sets and the registries are mutually exclusive,
\* so the forward loop never observes a connection part-way through its
\* removal: when the loop reads a connection's registry entry, the connection
\* is not out of the live set with its identity still registered.
C10_ScanNeverSeesPartialRemoval ==
  [][\A b \in WsConns : \A c \in TcpConns :
       ScanReads(b, c) =>
         ~ (c \notin tcp_clients /\ c \in DOMAIN tcp_identities)]_vars

\* A send of a broadcast that starts fails: the browser it was for is out of
\* the live set, and the coroutine goes on with the rest of its snapshot.
FirstSendFailureDrops ==
  (StartStep /\ ws_clients # {} /\ wsOut' = wsOut) =>
    \E b \in ws_clients :
      /\ ws_clients' = ws_clients \ {b}
      /\ \/ ws_clients = {b} /\ bcasts' = bcasts
         \/ \E t \in bcasts' :
              /\ t.msg = Head(loopQueue).msg
              /\ t.snap = ws_clients
              /\ t.todo = ws_clients \ {b}
              /\ t.failed = {b}

\* The same for a later send of a broadcast.
LaterSendFailureDrops ==
  \A t \in bcasts : (t \notin bcasts' /\ wsOut' = wsOut) =>
    \E b \in t.todo :
      /\ ws_clients' = ws_clients \ {b}
      /\ \/ t.todo = {b}
         \/ \E t2 \in bcasts' :
              /\ t2.msg = t.msg /\ t2.snap = t.snap /\ t2.sent = t.sent
              /\ t2.todo = t.todo \ {b}
              /\ t2.failed = t.failed \cup {b}

\* A broadcast with a failed send behind it: the browsers it failed for are
\* out of the live set, the rest of its snapshot was sent the message or is
\* still to come, and the coroutine can make its next send as soon as the
\* loop is free.
FailedBroadcastGoesOn ==
  \A t \in bcasts : t.failed # {} =>
    /\ t.failed \cap ws_clients = {}
    /\ t.todo # {}
    /\ t.snap \ t.failed = t.todo \cup t.sent
    /\ \A b \in t.sent : Copies(wsOut[b], t.msg) = 1
    /\ LoopFree => ENABLED L_BroadcastSend

\* C13: when a broadcast's send to one browser fails, that browser is
\* dropped from the live set and the broadcast still attempts delivery to
\* every remaining browser of its snapshot.
C13_BroadcastFailureContained ==
  /\ []FailedBroadcastGoesOn
  /\ [][FirstSendFailureDrops /\ LaterSendFailureDrops /\ BroadcastGoesOn]_vars

\* C13 witness: a broadcast to b1 and b2 failed for b1, which is out of the
\* live set, and has b2, live and open, still to send to.
C13_FailedOneOtherPending ==
  \E t \in bcasts :
    /\ t.snap = {"b1", "b2"}
    /\ t.failed = {"b1"}
    /\ t.todo = {"b2"}
    /\ "b1" \notin ws_clients
    /\ "b2" \in ws_clients /\ wsOpen["b2"]

\* A send_frame of b's forward loop has just failed.
ForwardSendFails(b) ==
  scanFailed[b] # scanFailed'[b] /\ scanFailed[b] \subseteq scanFailed'[b]

\* The handler goes on after a failed send: it is still in its for loop on
\* the event loop, still live and open, with the same connections left to
\* visit, and what it delivered before stays delivered.
FailedSendContained ==
  \A b \in WsConns : ForwardSendFails(b) =>
    /\ wpc'[b] = "scan" /\ loopRun' = b
    /\ ws_clients' = ws_clients /\ ws_identities' = ws_identities
    /\ wsOpen' = wsOpen /\ wsOut' = wsOut
    /\ scanTodo'[b] = scanTodo[b] /\ scanSent'[b] = scanSent[b]
    /\ tcpOut' = tcpOut

\* With a failed send behind it the loop still serves the others: every
\* other connection it is done with that has the target identity (and kept
\* its registry entry) was sent the message, which is on the stream of each
\* connection the send succeeded for, and the loop can take its next turn.
OthersStillServed ==
  \A b \in WsConns : (wpc[b] = "scan" /\ scanFailed[b] # {}) =>
    /\ loopRun = b
    /\ \A c \in ScanVisited(b) \ scanFailed[b] :
         (ScanStable(b, c) /\ IdentityIs(c, wobj[b].id, wobj[b].name)) =>
           (c \in scanSent[b] /\ Copies(tcpOut[c], wobj[b]) = 1)
    /\ scanCur[b] = "none" => ENABLED (W_ScanCheck(b) \/ W_ScanEnd(b))

\* C12: a send of a forward that fails, because the target's peer closed or
\* its thread cleaned it up meanwhile, is contained: the browser handler's
\* loop keeps running and the message still goes to every other matching
\* native connection.
C12_FailedForwardContained == []OthersStillServed /\ [][FailedSendContained]_vars

\* C12 witness: two connections registered the target identity; the send to
\* t1, closed by its own thread, failed, and t2 has the message.
C12_OneFailedOtherDelivered ==
  \E b \in WsConns :
    /\ wpc[b] = "scan"
    /\ scanFailed[b] = {"t1"}
    /\ scanSent[b] = {"t2"}
    /\ sockClosed("t1")
    /\ Copies(tcpOut["t2"], wobj[b]) = 1
    /\ Copies(tcpOut["t1"], wobj[b]) = 0

\* A hello is read from connection c; c's handler runs the pop of its
\* finally clause (the browser's finally is one step of the loop).
NativeHello(c) == hellos' = hellos + 1 /\ tIn'[c] = tIn[c] + 1
BrowserHello(b) == hellos' = hellos + 1 /\ wIn'[b] = wIn[b] + 1
NativeTerminates(c) == tpc[c] = "pop" /\ tpc'[c] = "close"
BrowserTerminates(b) == wpc[b] # "done" /\ wpc'[b] = "done"

\* A step of the event loop: a browser handler or a broadcast moves.
LoopStep ==
  \/ wpc' # wpc \/ wIn' # wIn \/ loopRun' # loopRun
  \/ scanTodo' # scanTodo \/ scanCur' # scanCur
  \/ bcasts' # bcasts \/ wsOut' # wsOut \/ ws_clients' # ws_clients

\* An entry of a registry changes only in a step that reads a hello from its
\* own connection, which sets it, or in its own connection's termination,
\* which removes it; the loop's steps leave the native registry alone and
\* the threads' steps the browser registry.
RegistryFrame ==
  /\ \A c \in TcpConns :
       DictGet(tcp_identities', c) # DictGet(tcp_identities, c) =>
         \/ NativeHello(c) /\ c \in DOMAIN tcp_identities'
         \/ NativeTerminates(c) /\ c \notin DOMAIN tcp_identities'
  /\ \A b \in WsConns :
       DictGet(ws_identities', b) # DictGet(ws_identities, b) =>
         \/ BrowserHello(b) /\ b \in DOMAIN ws_identities'
         \/ BrowserTerminates(b) /\ b \notin DOMAIN ws_identities'
  /\ LoopStep => tcp_identities' = tcp_identities
  /\ (tpc' # tpc \/ tIn' # tIn) => ws_identities' = ws_identities

\* C21: a registry entry is created or changed only by a hello received on
\* its own connection and removed only when that connection terminates; no
\* other event changes it, and no browser-side event changes the native
\* registry nor a native-side event the browser registry.
C21_RegistryChangedOnlyByOwnHelloOrEnd == [][RegistryFrame]_vars

\* C21 witness: t1 still has the entry of its one hello after t2 registered
\* and terminated and after a forward whose send to t2 failed and whose send
\* to t1 succeeded.
C21_EntryKeptThroughOtherEvents ==
  \E b \in WsConns :
    /\ IdentityIs("t1", "p1", "A") /\ regEpoch["t1"] = 1
    /\ tpc["t2"] = "done" /\ regEpoch["t2"] = 2
    /\ wpc[b] = "scan"
    /\ scanSent[b] = {"t1"} /\ scanFailed[b] = {"t2"}

\* A suspended broadcast has divided its snapshot into the browsers it sent
\* to, those the send failed for and those still to come; its message is
\* once on the stream of each browser it sent to and on no other stream.
OneSendPerSnapshotMember ==
  \A t \in bcasts :
    /\ t.snap = t.todo \cup t.sent \cup t.failed
    /\ t.todo \cap t.sent = {} /\ t.todo \cap t.failed = {}
    /\ t.sent \cap t.failed = {}
    /\ \A b \in WsConns :
         Copies(wsOut[b], t.msg) = IF b \in t.sent THEN 1 ELSE 0

\* A native connection's message is written to a browser's stream only by
\* the broadcast of that message, to a browser of its snapshot not yet
\* visited; the browser then is no longer to come.
SendsWithinSnapshot ==
  \A b \in WsConns :
    (/\ Len(wsOut'[b]) = Len(wsOut[b]) + 1
     /\ wsOut'[b][Len(wsOut'[b])].src \in TcpConns) =>
      LET m == wsOut'[b][Len(wsOut'[b])]
      IN /\ Copies(wsOut[b], m) = 0
         /\ \/ StartStep /\ Head(loopQueue).msg = m /\ b \in ws_clients
            \/ \E t \in bcasts : t.msg = m /\ b \in t.todo
         /\ \A t \in bcasts' : t.msg = m => b \in t.sent /\ b \in t.snap

C27_PerSenderFifo ==
  \A b \in WsConns : \A i, j \in DOMAIN wsOut[b] :
    (/\ b \in ws_clients /\ wsOpen[b]
     /\ i < j
     /\ wsOut[b][i].src \in TcpConns
     /\ wsOut[b][i].src = wsOut[b][j].src) => wsOut[b][i].n < wsOut[b][j].n

\* C28: for each transport the connections with a registry entry are
\* members of the live set, in every state, after a failed broadcast send
\* and during a connection's cleanup too.
C28_RegisteredAreLive ==
  /\ DOMAIN tcp_identities \subseteq tcp_clients
  /\ DOMAIN ws_identities \subseteq ws_clients

\* C29: a hello whose acknowledgement cannot be written to the native
\* connection is never announced to browsers: the failed send queues no
\* broadcast, the thread leaves its read loop for cleanup and never reads
\* again, cleanup removes the identity registered just before the send, and
\* every acknowledgement on its way to a browser is one that was written to
\* the native connection.
IsNativeAck(m) == m.cmd = "acknowledge" /\ m.src \in TcpConns
WasSent(m) == \E k \in DOMAIN tcpOut[m.src] : tcpOut[m.src][k] = m
AnnouncedAcksWereSent ==
  /\ \A i \in DOMAIN loopQueue :
       IsNativeAck(loopQueue[i].msg) => WasSent(loopQueue[i].msg)
  /\ \A t \in bcasts : IsNativeAck(t.msg) => WasSent(t.msg)
  /\ \A b \in WsConns : \A i \in DOMAIN wsOut[b] :
       IsNativeAck(wsOut[b][i]) => WasSent(wsOut[b][i])
InCleanup(c) == tpc[c] \in {"discard", "pop", "close", "done"}
CleanedUpIsUnregistered ==
  \A c \in TcpConns : tpc[c] \in {"close", "done"} => c \notin DOMAIN tcp_identities
AckSendFails(c) ==
  tpc[c] = "hello_ack" /\ tpc'[c] # "hello_ack" /\ tcpOut'[c] = tcpOut[c]
FailedAckEndsConnection ==
  \A c \in TcpConns :
    /\ AckSendFails(c) =>
         /\ c \in DOMAIN tcp_identities
         /\ tcp_identities[c] = [id |-> Get(tobj[c].id, ""),
                                 name |-> Get(tobj[c].name, "")]
         /\ tpc'[c] = "discard"
         /\ loopQueue' = loopQueue /\ bcasts' = bcasts /\ wsOut' = wsOut
    /\ InCleanup(c) => /\ tpc'[c] \in {"discard", "pop", "close", "done"}
                       /\ tIn'[c] = tIn[c]
                       /\ c \notin DOMAIN tcp_identities
                            => c \notin DOMAIN tcp_identities'
C29_FailedAckNotAnnounced ==
  /\ []AnnouncedAcksWereSent
  /\ []CleanedUpIsUnregistered
  /\ [][FailedAckEndsConnection]_vars
\* A connection's only hello went unacknowledged and its cleanup is over:
\* the identity is gone and a browser that was live all along was sent
\* nothing.
C29_UnackedHelloGone ==
  /\ tpc["t1"] = "done" /\ regEpoch["t1"] = 2 /\ tcpOut["t1"] = << >>
  /\ "t1" \notin DOMAIN tcp_identities
  /\ "b1" \in ws_clients /\ wsOpen["b1"] /\ wsOut["b1"] = << >>
  /\ loopQueue = << >> /\ bcasts = {}

\* ------------------------------------------------------------------ socket
SendsDone == \A w \in Writers : sLeft[w] = << >>

\* C11: the frames the connection's thread and the event loop write to one
\* native connection never interleave: once both send_frame calls have
\* returned, the receiver decodes exactly the two payloads, whole, in one of
\* the two orders.
C11_FramesNeverInterleave ==
  SendsDone =>
    recv_frames(sWire) \in { << sPayload["thread"], sPayload["loop"] >>,
                             << sPayload["loop"], sPayload["thread"] >> }

\* ----------------------------------------------------------------- helpers
Normalized == hpc \in {"once", "twice"}
IsResult(cmd) == cmd # PyNone /\ endswith(cmd, "_result")

\* C22: normalize_cmd returns a command that ends in _result unchanged,
\* whatever keys the message has and whatever payload it is given, and does
\* so again when called on what it returned.
C22_ResultCommandsUnchanged ==
  (Normalized /\ IsResult(hCmd)) => \A i \in DOMAIN hOut : hOut[i] = hCmd

\* C22 witness: x_result came back unchanged for a message with a morphs and
\* a controllers key and a payload.
C22_ResultWithMorphsKept ==
  /\ hpc = "once"
  /\ hCmd = ResultOf(PyStr(<< "x" >>))
  /\ hObj.morphs = PyList(<< "m" >>)
  /\ hObj.controllers = PyList(<< "c" >>)
  /\ hPayload = PyList(<< "m" >>)
  /\ hOut = << hCmd >>

\* C23: for a command that does not end in _result: with a payload that is
\* not None, a message with a morphs key and a command other than
\* read_all_morphs gives read_all_morphs; otherwise a message with a
\* controllers key and a command other than read_all_controllers gives
\* read_all_controllers; in every other case the command comes back
\* unchanged, the empty string for no command.
C23_NormalizeByPayloadKey ==
  (Normalized /\ ~IsResult(hCmd)) =>
    hOut[1] =
      IF hPayload # PyNone /\ hObj.morphs # Missing /\ hCmd # ReadAllMorphs
      THEN ReadAllMorphs
      ELSE IF /\ hPayload # PyNone
              /\ hObj.controllers # Missing
              /\ hCmd # ReadAllControllers
           THEN ReadAllControllers
      ELSE IF hCmd = PyNone THEN PyStr(<< >>) ELSE hCmd

\* C23 witness: command x with an extracted payload and both keys became
\* read_all_morphs.
C23_BothKeysGiveMorphs ==
  /\ hpc = "once"
  /\ hCmd = PyStr(<< "x" >>)
  /\ hObj.morphs = PyList(<< "m" >>)
  /\ hObj.controllers = PyList(<< "c" >>)
  /\ hPayload = extract_payload(hObj)
  /\ hOut = << ReadAllMorphs >>

\* A key counts when it is in the message with a value other than None.
Present(v) == v \notin {Missing, PyNone}

\* C24: the payload is data when data is present and not None, else morphs
\* when present and not None, else controllers when present and not None,
\* else None; a key with the value None is passed over like a missing one.
C24_PayloadPrecedence ==
  hpc = "extracted" =>
    /\ Present(hObj.data) => hPayload = hObj.data
    /\ (~Present(hObj.data) /\ Present(hObj.morphs)) => hPayload = hObj.morphs
    /\ (~Present(hObj.data) /\ ~Present(hObj.morphs)
          /\ Present(hObj.controllers)) => hPayload = hObj.controllers
    /\ (~Present(hObj.data) /\ ~Present(hObj.morphs)
          /\ ~Present(hObj.controllers)) => hPayload = PyNone

\* C24 witness: data is None, morphs is an empty list, controllers a list:
\* the payload is the empty morphs list.
C24_NullDataEmptyMorphs ==
  /\ hpc = "extracted"
  /\ hObj.data = PyNone
  /\ hObj.morphs = PyList(<< >>)
  /\ hObj.controllers = PyList(<< "c" >>)
  /\ hPayload = PyList(<< >>)

\* An entry the claim keeps: its id is there, is not None, and is not an
\* empty or whitespace-only string.
Survives(c) ==
  /\ c.id \notin {Missing, PyNone}
  /\ ~(isStr(c.id) /\ strip(c.id) = PyStr(<< >>))
GivenW(c) ==
  IF c.rotation \in {Missing, PyNone} THEN Missing ELSE c.rotation.w
GivenX(c) ==
  IF c.rotation \in {Missing, PyNone} THEN Missing ELSE c.rotation.x

\* C25: normalize_controllers returns, in input order, exactly the entries
\* whose id is present, not None and not an empty or whitespace-only string,
\* each with its id as a string, rotation.w 1.0 when w was missing or None
\* and the given w otherwise, and every other field as it was; when no entry
\* survives send_set_controller sends no frame.
C25_ControllersNormalized ==
  hpc \in {"normalized", "sent"} =>
    LET kept == SelectSeq(hControllers, Survives)
    IN /\ Len(hNormalized) = Len(kept)
       /\ \A i \in 1..Len(kept) :
            /\ hNormalized[i].id = str(kept[i].id)
            /\ hNormalized[i].rotation.w =
                 IF GivenW(kept[i]) \in {Missing, PyNone} THEN PyFloat(1)
                 ELSE GivenW(kept[i])
            /\ hNormalized[i].rotation.x = GivenX(kept[i])
            /\ hNormalized[i].position = kept[i].position
       /\ (hpc = "sent" /\ kept = << >>) => hSent = << >>

\* C30: normalize_cmd is idempotent: with payload = extract_payload(obj),
\* normalizing what it returned, with the same message and payload, gives
\* the same command again.
C30_NormalizeCmdIdempotent ==
  (hpc = "twice" /\ hPayload = extract_payload(hObj)) => hOut[2] = hOut[1]

====
